---------------------------- MODULE Spec2Model ----------------------------
(***************************************************************************)
(* A model of the bootstrap compiler of the "1" language:                  *)
(*   src/bootstrap/lexer.py         Lexer.tokenize                         *)
(*   src/bootstrap/parser.py        Parser.parse                           *)
(*   src/bootstrap/type_checker.py  TypeChecker.check_program              *)
(*   src/bootstrap/codegen.py       CodeGenerator.generate                 *)
(* Each stage is a group of variables and actions.  A stage's pure         *)
(* recursive walks (expression parsing, checking, code generation) are     *)
(* RECURSIVE operators; its loops over the input are actions.              *)
(***************************************************************************)
EXTENDS Integers, Sequences, FiniteSets, TLC

VARIABLES
    \* ---- Lexer (lexer.py:173-179) ----
    source,        \* Lexer.source, a sequence of one-character strings
    pos,           \* Lexer.pos (0-based)
    line,          \* Lexer.line
    column,        \* Lexer.column
    tokens,        \* Lexer.tokens, and Parser.tokens once lexing returned
    starts,        \* history: 0-based source offset where each token began
    lex_status,    \* "idle" | "running" | "returned" | "raised"
    lex_error,     \* the exception tokenize raised, or NoError
    \* ---- Parser (parser.py:237-239) ----
    current,       \* Parser.current (0-based)
    pc,            \* position of Parser.parse in its loops
    function,      \* the Function node function_declaration is filling in
    params,        \* the list parameter_list / requirement_list is building
    program,       \* the Program node (its declarations)
    parse_status,  \* "idle" | "running" | "returned" | "raised"
    parse_error,   \* the ParseError raised, or NoError
    iters,         \* history: loop iterations Parser.parse has executed
    parse_runs,    \* history: what each earlier Parser.parse call returned
    \* ---- TypeChecker (type_checker.py:98-101) ----
    global_env,    \* TypeChecker.global_env.bindings
    errors,        \* TypeChecker.errors
    check_status,  \* "idle" | "running" | "returned"
    check_idx,     \* position of check_program in its two passes
    check_runs,    \* history: what each check_program call returned
    \* ---- CodeGenerator (codegen.py:96-100) ----
    module,        \* BytecodeModule.functions
    label_counter, \* CodeGenerator.label_counter
    loop_stack,    \* CodeGenerator.loop_stack
    gen_idx,       \* index of the next declaration generate() visits
    gen_status,    \* "idle" | "running" | "returned" | "raised"
    gen_error,     \* message of the exception generate raised, or ""
    gen_log,       \* history: per generate_function call, the body code
    \* ---- Compiler.compile_string (compiler.py:94-115) ----
    stage          \* the stage compile_string is in

lexVars   == <<source, pos, line, column, tokens, starts, lex_status, lex_error>>
parseVars == <<current, pc, function, params, program, parse_status, parse_error, iters,
               parse_runs>>
checkVars == <<global_env, errors, check_status, check_idx, check_runs>>
genVars   == <<module, label_counter, loop_stack, gen_idx, gen_status, gen_error, gen_log>>
vars      == <<lexVars, parseVars, checkVars, genVars, stage>>

-----------------------------------------------------------------------------
(* Small helpers                                                           *)

Max(a, b) == IF a >= b THEN a ELSE b

Last(s) == s[Len(s)]

DigitChars == <<"0", "1", "2", "3", "4", "5", "6", "7", "8", "9">>

\* Python's str(n) for a natural number, used by the f-string in new_label.
RECURSIVE IntStr(_)
IntStr(n) ==
    IF n < 10 THEN DigitChars[n + 1]
    ELSE IntStr(n \div 10) \o DigitChars[(n % 10) + 1]

-----------------------------------------------------------------------------
(* Python values that occur as literal values and instruction operands.    *)
(* Every value is a record [t, v]; SameVal is Python's ==, which is        *)
(* false between a str and an int, a tuple or None.                        *)

NoneVal      == [t |-> "none", v |-> ""]
IntVal(n)    == [t |-> "int", v |-> n]
StrVal(s)    == [t |-> "str", v |-> s]
BoolVal(b)   == [t |-> "bool", v |-> b]
FloatVal(s)  == [t |-> "float", v |-> s]
CallVal(f, n) == [t |-> "call", v |-> <<f, n>>]

SameVal(a, b) == a.t = b.t /\ a.v = b.v

\* SourceLocation (lexer.py:101-109); the filename is the same everywhere.
Loc(l, c) == [line |-> l, column |-> c]
NoLoc == Loc(0, 0)

-----------------------------------------------------------------------------
(* Lexer (lexer.py:131-490).                                               *)
(* A cursor c is the lexer's position [pos, line, column]; the cursor      *)
(* operators read the variable source.  A character is a one-character     *)
(* string; peek's None is the string "None".                               *)

NoError == [message |-> "", location |-> NoLoc]

Token(type, lexeme, location, literal) ==
    [type |-> type, lexeme |-> lexeme, location |-> location, literal |-> literal]

Letters ==
    {"a", "b", "c", "d", "e", "f", "g", "h", "i", "j", "k", "l", "m", "n", "o",
     "p", "q", "r", "s", "t", "u", "v", "w", "x", "y", "z",
     "A", "B", "C", "D", "E", "F", "G", "H", "I", "J", "K", "L", "M", "N", "O",
     "P", "Q", "R", "S", "T", "U", "V", "W", "X", "Y", "Z"}

Digits == {"0", "1", "2", "3", "4", "5", "6", "7", "8", "9"}

\* Python's str.isdigit, str.isalpha and str.isalnum follow the Unicode
\* character database (version 14.0.0 in the Python that runs the code).
\* A character is a one-character Python string, written here as a TLA+
\* string: every character of Latin-1, and beyond U+00FF every character
\* whose UTF-16 code units all have a low byte of 80 to FF (the others
\* cannot be written in a TLA+ string).  The sets below list the characters
\* of each class among these.
\*   isalpha: Letters, Latin1Letters, UnicodeLetters;
\*   isdecimal (the digits int() and float() accept, with their values):
\*            Digits, UnicodeDecimalDigits[d + 1] for the value d;
\*   isdigit: the decimal digits, and SuperscriptDigits and
\*            UnicodeOtherDigits, which int() and float() reject;
\*   isalnum: all of these, and Fractions and UnicodeNumerics, which are
\*            numeric only (neither isdigit nor isalpha).
Latin1Letters ==
    {"ª", "µ", "º", "À", "Á", "Â", "Ã", "Ä", "Å", "Æ", "Ç", "È", "É", "Ê", "Ë",
     "Ì", "Í", "Î", "Ï", "Ð", "Ñ", "Ò", "Ó", "Ô", "Õ", "Ö", "Ø", "Ù", "Ú", "Û",
     "Ü", "Ý", "Þ", "ß", "à", "á", "â", "ã", "ä", "å", "æ", "ç", "è", "é", "ê",
     "ë", "ì", "í", "î", "ï", "ð", "ñ", "ò", "ó", "ô", "õ", "ö", "ø", "ù", "ú",
     "û", "ü", "ý", "þ", "ÿ"}

SuperscriptDigits == {"²", "³", "¹"}

Fractions == {"¼", "½", "¾"}

UnicodeLetters ==
    {"ƀ", "Ɓ", "Ƃ", "ƃ", "Ƅ", "ƅ", "Ɔ", "Ƈ", "ƈ", "Ɖ", "Ɗ", "Ƌ", "ƌ", "ƍ", "Ǝ", "Ə",
     "Ɛ", "Ƒ", "ƒ", "Ɠ", "Ɣ", "ƕ", "Ɩ", "Ɨ", "Ƙ", "ƙ", "ƚ", "ƛ", "Ɯ", "Ɲ", "ƞ", "Ɵ",
     "Ơ", "ơ", "Ƣ", "ƣ", "Ƥ", "ƥ", "Ʀ", "Ƨ", "ƨ", "Ʃ", "ƪ", "ƫ", "Ƭ", "ƭ", "Ʈ", "Ư",
     "ư", "Ʊ", "Ʋ", "Ƴ", "ƴ", "Ƶ", "ƶ", "Ʒ", "Ƹ", "ƹ", "ƺ", "ƻ", "Ƽ", "ƽ", "ƾ", "ƿ",
     "ǀ", "ǁ", "ǂ", "ǃ", "Ǆ", "ǅ", "ǆ", "Ǉ", "ǈ", "ǉ", "Ǌ", "ǋ", "ǌ", "Ǎ", "ǎ", "Ǐ",
     "ǐ", "Ǒ", "ǒ", "Ǔ", "ǔ", "Ǖ", "ǖ", "Ǘ", "ǘ", "Ǚ", "ǚ", "Ǜ", "ǜ", "ǝ", "Ǟ", "ǟ",
     "Ǡ", "ǡ", "Ǣ", "ǣ", "Ǥ", "ǥ", "Ǧ", "ǧ", "Ǩ", "ǩ", "Ǫ", "ǫ", "Ǭ", "ǭ", "Ǯ", "ǯ",
     "ǰ", "Ǳ", "ǲ", "ǳ", "Ǵ", "ǵ", "Ƕ", "Ƿ", "Ǹ", "ǹ", "Ǻ", "ǻ", "Ǽ", "ǽ", "Ǿ", "ǿ",
     "ʀ", "ʁ", "ʂ", "ʃ", "ʄ", "ʅ", "ʆ", "ʇ", "ʈ", "ʉ", "ʊ", "ʋ", "ʌ", "ʍ", "ʎ", "ʏ",
     "ʐ", "ʑ", "ʒ", "ʓ", "ʔ", "ʕ", "ʖ", "ʗ", "ʘ", "ʙ", "ʚ", "ʛ", "ʜ", "ʝ", "ʞ", "ʟ",
     "ʠ", "ʡ", "ʢ", "ʣ", "ʤ", "ʥ", "ʦ", "ʧ", "ʨ", "ʩ", "ʪ", "ʫ", "ʬ", "ʭ", "ʮ", "ʯ",
     "ʰ", "ʱ", "ʲ", "ʳ", "ʴ", "ʵ", "ʶ", "ʷ", "ʸ", "ʹ", "ʺ", "ʻ", "ʼ", "ʽ", "ʾ", "ʿ",
     "ˀ", "ˁ", "ˆ", "ˇ", "ˈ", "ˉ", "ˊ", "ˋ", "ˌ", "ˍ", "ˎ", "ˏ", "ː", "ˑ", "ˠ", "ˡ",
     "ˢ", "ˣ", "ˤ", "ˬ", "ˮ", "Ά", "Έ", "Ή", "Ί", "Ό", "Ύ", "Ώ", "ΐ", "Α", "Β", "Γ",
     "Δ", "Ε", "Ζ", "Η", "Θ", "Ι", "Κ", "Λ", "Μ", "Ν", "Ξ", "Ο", "Π", "Ρ", "Σ", "Τ",
     "Υ", "Φ", "Χ", "Ψ", "Ω", "Ϊ", "Ϋ", "ά", "έ", "ή", "ί", "ΰ", "α", "β", "γ", "δ",
     "ε", "ζ", "η", "θ", "ι", "κ", "λ", "μ", "ν", "ξ", "ο", "π", "ρ", "ς", "σ", "τ",
     "υ", "φ", "χ", "ψ", "ω", "ϊ", "ϋ", "ό", "ύ", "ώ", "Ϗ", "ϐ", "ϑ", "ϒ", "ϓ", "ϔ",
     "ϕ", "ϖ", "ϗ", "Ϙ", "ϙ", "Ϛ", "ϛ", "Ϝ", "ϝ", "Ϟ", "ϟ", "Ϡ", "ϡ", "Ϣ", "ϣ", "Ϥ",
     "ϥ", "Ϧ", "ϧ", "Ϩ", "ϩ", "Ϫ", "ϫ", "Ϭ", "ϭ", "Ϯ", "ϯ", "ϰ", "ϱ", "ϲ", "ϳ", "ϴ",
     "ϵ", "Ϸ", "ϸ", "Ϲ", "Ϻ", "ϻ", "ϼ", "Ͻ", "Ͼ", "Ͽ", "Ҁ", "ҁ", "Ҋ", "ҋ", "Ҍ", "ҍ",
     "Ҏ", "ҏ", "Ґ", "ґ", "Ғ", "ғ", "Ҕ", "ҕ", "Җ", "җ", "Ҙ", "ҙ", "Қ", "қ", "Ҝ", "ҝ",
     "Ҟ", "ҟ", "Ҡ", "ҡ", "Ң", "ң", "Ҥ", "ҥ", "Ҧ", "ҧ", "Ҩ", "ҩ", "Ҫ", "ҫ", "Ҭ", "ҭ",
     "Ү", "ү", "Ұ", "ұ", "Ҳ", "ҳ", "Ҵ", "ҵ", "Ҷ", "ҷ", "Ҹ", "ҹ", "Һ", "һ", "Ҽ", "ҽ",
     "Ҿ", "ҿ", "Ӏ", "Ӂ", "ӂ", "Ӄ", "ӄ", "Ӆ", "ӆ", "Ӈ", "ӈ", "Ӊ", "ӊ", "Ӌ", "ӌ", "Ӎ",
     "ӎ", "ӏ", "Ӑ", "ӑ", "Ӓ", "ӓ", "Ӕ", "ӕ", "Ӗ", "ӗ", "Ә", "ә", "Ӛ", "ӛ", "Ӝ", "ӝ",
     "Ӟ", "ӟ", "Ӡ", "ӡ", "Ӣ", "ӣ", "Ӥ", "ӥ", "Ӧ", "ӧ", "Ө", "ө", "Ӫ", "ӫ", "Ӭ", "ӭ",
     "Ӯ", "ӯ", "Ӱ", "ӱ", "Ӳ", "ӳ", "Ӵ", "ӵ", "Ӷ", "ӷ", "Ӹ", "ӹ", "Ӻ", "ӻ", "Ӽ", "ӽ",
     "Ӿ", "ӿ", "ր", "ց", "ւ", "փ", "ք", "օ", "ֆ", "և", "ֈ", "א", "ב", "ג", "ד", "ה",
     "ו", "ז", "ח", "ט", "י", "ך", "כ", "ל", "ם", "מ", "ן", "נ", "ס", "ע", "ף", "פ",
     "ץ", "צ", "ק", "ר", "ש", "ת", "ׯ", "װ", "ױ", "ײ", "ڀ", "ځ", "ڂ", "ڃ", "ڄ", "څ",
     "چ", "ڇ", "ڈ", "ډ", "ڊ", "ڋ", "ڌ", "ڍ", "ڎ", "ڏ", "ڐ", "ڑ", "ڒ", "ړ", "ڔ", "ڕ",
     "ږ", "ڗ", "ژ", "ڙ", "ښ", "ڛ", "ڜ", "ڝ", "ڞ", "ڟ", "ڠ", "ڡ", "ڢ", "ڣ", "ڤ", "ڥ",
     "ڦ", "ڧ", "ڨ", "ک", "ڪ", "ګ", "ڬ", "ڭ", "ڮ", "گ", "ڰ", "ڱ", "ڲ", "ڳ", "ڴ", "ڵ",
     "ڶ", "ڷ", "ڸ", "ڹ", "ں", "ڻ", "ڼ", "ڽ", "ھ", "ڿ", "ۀ", "ہ", "ۂ", "ۃ", "ۄ", "ۅ",
     "ۆ", "ۇ", "ۈ", "ۉ", "ۊ", "ۋ", "ی", "ۍ", "ێ", "ۏ", "ې", "ۑ", "ے", "ۓ", "ە", "ۥ",
     "ۦ", "ۮ", "ۯ", "ۺ", "ۻ", "ۼ", "ۿ", "ހ", "ށ", "ނ", "ރ", "ބ", "ޅ", "ކ", "އ", "ވ",
     "މ", "ފ", "ދ", "ތ", "ލ", "ގ", "ޏ", "ސ", "ޑ", "ޒ", "ޓ", "ޔ", "ޕ", "ޖ", "ޗ", "ޘ",
     "ޙ", "ޚ", "ޛ", "ޜ", "ޝ", "ޞ", "ޟ", "ޠ", "ޡ", "ޢ", "ޣ", "ޤ", "ޥ", "ޱ", "ߊ", "ߋ",
     "ߌ", "ߍ", "ߎ", "ߏ", "ߐ", "ߑ", "ߒ", "ߓ", "ߔ", "ߕ", "ߖ", "ߗ", "ߘ", "ߙ", "ߚ", "ߛ",
     "ߜ", "ߝ", "ߞ", "ߟ", "ߠ", "ߡ", "ߢ", "ߣ", "ߤ", "ߥ", "ߦ", "ߧ", "ߨ", "ߩ", "ߪ", "ߴ",
     "ߵ", "ߺ", "ࢀ", "ࢁ", "ࢂ", "ࢃ", "ࢄ", "ࢅ", "ࢆ", "ࢇ", "ࢉ", "ࢊ", "ࢋ", "ࢌ", "ࢍ", "ࢎ",
     "ࢠ", "ࢡ", "ࢢ", "ࢣ", "ࢤ", "ࢥ", "ࢦ", "ࢧ", "ࢨ", "ࢩ", "ࢪ", "ࢫ", "ࢬ", "ࢭ", "ࢮ", "ࢯ",
     "ࢰ", "ࢱ", "ࢲ", "ࢳ", "ࢴ", "ࢵ", "ࢶ", "ࢷ", "ࢸ", "ࢹ", "ࢺ", "ࢻ", "ࢼ", "ࢽ", "ࢾ", "ࢿ",
     "ࣀ", "ࣁ", "ࣂ", "ࣃ", "ࣄ", "ࣅ", "ࣆ", "ࣇ", "ࣈ", "ࣉ", "ঀ", "অ", "আ", "ই", "ঈ", "উ",
     "ঊ", "ঋ", "ঌ", "এ", "ঐ", "ও", "ঔ", "ক", "খ", "গ", "ঘ", "ঙ", "চ", "ছ", "জ", "ঝ",
     "ঞ", "ট", "ঠ", "ড", "ঢ", "ণ", "ত", "থ", "দ", "ধ", "ন", "প", "ফ", "ব", "ভ", "ম",
     "য", "র", "ল", "শ", "ষ", "স", "হ", "ঽ", "ৎ", "ড়", "ঢ়", "য়", "ৠ", "ৡ", "ৰ", "ৱ",
     "ৼ", "અ", "આ", "ઇ", "ઈ", "ઉ", "ઊ", "ઋ", "ઌ", "ઍ", "એ", "ઐ", "ઑ", "ઓ", "ઔ", "ક",
     "ખ", "ગ", "ઘ", "ઙ", "ચ", "છ", "જ", "ઝ", "ઞ", "ટ", "ઠ", "ડ", "ઢ", "ણ", "ત", "થ",
     "દ", "ધ", "ન", "પ", "ફ", "બ", "ભ", "મ", "ય", "ર", "લ", "ળ", "વ", "શ", "ષ", "સ",
     "હ", "ઽ", "ૐ", "ૠ", "ૡ", "ૹ", "ஃ", "அ", "ஆ", "இ", "ஈ", "உ", "ஊ", "எ", "ஏ", "ஐ",
     "ஒ", "ஓ", "ஔ", "க", "ங", "ச", "ஜ", "ஞ", "ட", "ண", "த", "ந", "ன", "ப", "ம", "ய",
     "ர", "ற", "ல", "ள", "ழ", "வ", "ஶ", "ஷ", "ஸ", "ஹ", "ௐ", "ಀ", "ಅ", "ಆ", "ಇ", "ಈ",
     "ಉ", "ಊ", "ಋ", "ಌ", "ಎ", "ಏ", "ಐ", "ಒ", "ಓ", "ಔ", "ಕ", "ಖ", "ಗ", "ಘ", "ಙ", "ಚ",
     "ಛ", "ಜ", "ಝ", "ಞ", "ಟ", "ಠ", "ಡ", "ಢ", "ಣ", "ತ", "ಥ", "ದ", "ಧ", "ನ", "ಪ", "ಫ",
     "ಬ", "ಭ", "ಮ", "ಯ", "ರ", "ಱ", "ಲ", "ಳ", "ವ", "ಶ", "ಷ", "ಸ", "ಹ", "ಽ", "ೝ", "ೞ",
     "ೠ", "ೡ", "ೱ", "ೲ", "අ", "ආ", "ඇ", "ඈ", "ඉ", "ඊ", "උ", "ඌ", "ඍ", "ඎ", "ඏ", "ඐ",
     "එ", "ඒ", "ඓ", "ඔ", "ඕ", "ඖ", "ක", "ඛ", "ග", "ඝ", "ඞ", "ඟ", "ච", "ඡ", "ජ", "ඣ",
     "ඤ", "ඥ", "ඦ", "ට", "ඨ", "ඩ", "ඪ", "ණ", "ඬ", "ත", "ථ", "ද", "ධ", "න", "ඳ", "ප",
     "ඵ", "බ", "භ", "ම", "ඹ", "ය", "ර", "ල", "ව", "ශ", "ෂ", "ස", "හ", "ළ", "ෆ", "ກ",
     "ຂ", "ຄ", "ຆ", "ງ", "ຈ", "ຉ", "ຊ", "ຌ", "ຍ", "ຎ", "ຏ", "ຐ", "ຑ", "ຒ", "ຓ", "ດ",
     "ຕ", "ຖ", "ທ", "ຘ", "ນ", "ບ", "ປ", "ຜ", "ຝ", "ພ", "ຟ", "ຠ", "ມ", "ຢ", "ຣ", "ລ",
     "ວ", "ຨ", "ຩ", "ສ", "ຫ", "ຬ", "ອ", "ຮ", "ຯ", "ະ", "າ", "ຳ", "ຽ", "ເ", "ແ", "ໂ",
     "ໃ", "ໄ", "ໆ", "ໜ", "ໝ", "ໞ", "ໟ", "ྈ", "ྉ", "ྊ", "ྋ", "ྌ", "ႀ", "ႁ", "ႎ", "Ⴀ",
     "Ⴁ", "Ⴂ", "Ⴃ", "Ⴄ", "Ⴅ", "Ⴆ", "Ⴇ", "Ⴈ", "Ⴉ", "Ⴊ", "Ⴋ", "Ⴌ", "Ⴍ", "Ⴎ", "Ⴏ", "Ⴐ",
     "Ⴑ", "Ⴒ", "Ⴓ", "Ⴔ", "Ⴕ", "Ⴖ", "Ⴗ", "Ⴘ", "Ⴙ", "Ⴚ", "Ⴛ", "Ⴜ", "Ⴝ", "Ⴞ", "Ⴟ", "Ⴠ",
     "Ⴡ", "Ⴢ", "Ⴣ", "Ⴤ", "Ⴥ", "Ⴧ", "Ⴭ", "ა", "ბ", "გ", "დ", "ე", "ვ", "ზ", "თ", "ი",
     "კ", "ლ", "მ", "ნ", "ო", "პ", "ჟ", "რ", "ს", "ტ", "უ", "ფ", "ქ", "ღ", "ყ", "შ",
     "ჩ", "ც", "ძ", "წ", "ჭ", "ხ", "ჯ", "ჰ", "ჱ", "ჲ", "ჳ", "ჴ", "ჵ", "ჶ", "ჷ", "ჸ",
     "ჹ", "ჺ", "ჼ", "ჽ", "ჾ", "ჿ", "ᆀ", "ᆁ", "ᆂ", "ᆃ", "ᆄ", "ᆅ", "ᆆ", "ᆇ", "ᆈ", "ᆉ",
     "ᆊ", "ᆋ", "ᆌ", "ᆍ", "ᆎ", "ᆏ", "ᆐ", "ᆑ", "ᆒ", "ᆓ", "ᆔ", "ᆕ", "ᆖ", "ᆗ", "ᆘ", "ᆙ",
     "ᆚ", "ᆛ", "ᆜ", "ᆝ", "ᆞ", "ᆟ", "ᆠ", "ᆡ", "ᆢ", "ᆣ", "ᆤ", "ᆥ", "ᆦ", "ᆧ", "ᆨ", "ᆩ",
     "ᆪ", "ᆫ", "ᆬ", "ᆭ", "ᆮ", "ᆯ", "ᆰ", "ᆱ", "ᆲ", "ᆳ", "ᆴ", "ᆵ", "ᆶ", "ᆷ", "ᆸ", "ᆹ",
     "ᆺ", "ᆻ", "ᆼ", "ᆽ", "ᆾ", "ᆿ", "ᇀ", "ᇁ", "ᇂ", "ᇃ", "ᇄ", "ᇅ", "ᇆ", "ᇇ", "ᇈ", "ᇉ",
     "ᇊ", "ᇋ", "ᇌ", "ᇍ", "ᇎ", "ᇏ", "ᇐ", "ᇑ", "ᇒ", "ᇓ", "ᇔ", "ᇕ", "ᇖ", "ᇗ", "ᇘ", "ᇙ",
     "ᇚ", "ᇛ", "ᇜ", "ᇝ", "ᇞ", "ᇟ", "ᇠ", "ᇡ", "ᇢ", "ᇣ", "ᇤ", "ᇥ", "ᇦ", "ᇧ", "ᇨ", "ᇩ",
     "ᇪ", "ᇫ", "ᇬ", "ᇭ", "ᇮ", "ᇯ", "ᇰ", "ᇱ", "ᇲ", "ᇳ", "ᇴ", "ᇵ", "ᇶ", "ᇷ", "ᇸ", "ᇹ",
     "ᇺ", "ᇻ", "ᇼ", "ᇽ", "ᇾ", "ᇿ", "ኀ", "ኁ", "ኂ", "ኃ", "ኄ", "ኅ", "ኆ", "ኇ", "ኈ", "ኊ",
     "ኋ", "ኌ", "ኍ", "ነ", "ኑ", "ኒ", "ና", "ኔ", "ን", "ኖ", "ኗ", "ኘ", "ኙ", "ኚ", "ኛ", "ኜ",
     "ኝ", "ኞ", "ኟ", "አ", "ኡ", "ኢ", "ኣ", "ኤ", "እ", "ኦ", "ኧ", "ከ", "ኩ", "ኪ", "ካ", "ኬ",
     "ክ", "ኮ", "ኯ", "ኰ", "ኲ", "ኳ", "ኴ", "ኵ", "ኸ", "ኹ", "ኺ", "ኻ", "ኼ", "ኽ", "ኾ", "ዀ",
     "ዂ", "ዃ", "ዄ", "ዅ", "ወ", "ዉ", "ዊ", "ዋ", "ዌ", "ው", "ዎ", "ዏ", "ዐ", "ዑ", "ዒ", "ዓ",
     "ዔ", "ዕ", "ዖ", "ዘ", "ዙ", "ዚ", "ዛ", "ዜ", "ዝ", "ዞ", "ዟ", "ዠ", "ዡ", "ዢ", "ዣ", "ዤ",
     "ዥ", "ዦ", "ዧ", "የ", "ዩ", "ዪ", "ያ", "ዬ", "ይ", "ዮ", "ዯ", "ደ", "ዱ", "ዲ", "ዳ", "ዴ",
     "ድ", "ዶ", "ዷ", "ዸ", "ዹ", "ዺ", "ዻ", "ዼ", "ዽ", "ዾ", "ዿ", "ᎀ", "ᎁ", "ᎂ", "ᎃ", "ᎄ",
     "ᎅ", "ᎆ", "ᎇ", "ᎈ", "ᎉ", "ᎊ", "ᎋ", "ᎌ", "ᎍ", "ᎎ", "ᎏ", "Ꭰ", "Ꭱ", "Ꭲ", "Ꭳ", "Ꭴ",
     "Ꭵ", "Ꭶ", "Ꭷ", "Ꭸ", "Ꭹ", "Ꭺ", "Ꭻ", "Ꭼ", "Ꭽ", "Ꭾ", "Ꭿ", "Ꮀ", "Ꮁ", "Ꮂ", "Ꮃ", "Ꮄ",
     "Ꮅ", "Ꮆ", "Ꮇ", "Ꮈ", "Ꮉ", "Ꮊ", "Ꮋ", "Ꮌ", "Ꮍ", "Ꮎ", "Ꮏ", "Ꮐ", "Ꮑ", "Ꮒ", "Ꮓ", "Ꮔ",
     "Ꮕ", "Ꮖ", "Ꮗ", "Ꮘ", "Ꮙ", "Ꮚ", "Ꮛ", "Ꮜ", "Ꮝ", "Ꮞ", "Ꮟ", "Ꮠ", "Ꮡ", "Ꮢ", "Ꮣ", "Ꮤ",
     "Ꮥ", "Ꮦ", "Ꮧ", "Ꮨ", "Ꮩ", "Ꮪ", "Ꮫ", "Ꮬ", "Ꮭ", "Ꮮ", "Ꮯ", "Ꮰ", "Ꮱ", "Ꮲ", "Ꮳ", "Ꮴ",
     "Ꮵ", "Ꮶ", "Ꮷ", "Ꮸ", "Ꮹ", "Ꮺ", "Ꮻ", "Ꮼ", "Ꮽ", "Ꮾ", "Ꮿ", "Ᏸ", "Ᏹ", "Ᏺ", "Ᏻ", "Ᏼ",
     "Ᏽ", "ᏸ", "ᏹ", "ᏺ", "ᏻ", "ᏼ", "ᏽ", "ᒀ", "ᒁ", "ᒂ", "ᒃ", "ᒄ", "ᒅ", "ᒆ", "ᒇ", "ᒈ",
     "ᒉ", "ᒊ", "ᒋ", "ᒌ", "ᒍ", "ᒎ", "ᒏ", "ᒐ", "ᒑ", "ᒒ", "ᒓ", "ᒔ", "ᒕ", "ᒖ", "ᒗ", "ᒘ",
     "ᒙ", "ᒚ", "ᒛ", "ᒜ", "ᒝ", "ᒞ", "ᒟ", "ᒠ", "ᒡ", "ᒢ", "ᒣ", "ᒤ", "ᒥ", "ᒦ", "ᒧ", "ᒨ",
     "ᒩ", "ᒪ", "ᒫ", "ᒬ", "ᒭ", "ᒮ", "ᒯ", "ᒰ", "ᒱ", "ᒲ", "ᒳ", "ᒴ", "ᒵ", "ᒶ", "ᒷ", "ᒸ",
     "ᒹ", "ᒺ", "ᒻ", "ᒼ", "ᒽ", "ᒾ", "ᒿ", "ᓀ", "ᓁ", "ᓂ", "ᓃ", "ᓄ", "ᓅ", "ᓆ", "ᓇ", "ᓈ",
     "ᓉ", "ᓊ", "ᓋ", "ᓌ", "ᓍ", "ᓎ", "ᓏ", "ᓐ", "ᓑ", "ᓒ", "ᓓ", "ᓔ", "ᓕ", "ᓖ", "ᓗ", "ᓘ",
     "ᓙ", "ᓚ", "ᓛ", "ᓜ", "ᓝ", "ᓞ", "ᓟ", "ᓠ", "ᓡ", "ᓢ", "ᓣ", "ᓤ", "ᓥ", "ᓦ", "ᓧ", "ᓨ",
     "ᓩ", "ᓪ", "ᓫ", "ᓬ", "ᓭ", "ᓮ", "ᓯ", "ᓰ", "ᓱ", "ᓲ", "ᓳ", "ᓴ", "ᓵ", "ᓶ", "ᓷ", "ᓸ",
     "ᓹ", "ᓺ", "ᓻ", "ᓼ", "ᓽ", "ᓾ", "ᓿ", "ᖀ", "ᖁ", "ᖂ", "ᖃ", "ᖄ", "ᖅ", "ᖆ", "ᖇ", "ᖈ",
     "ᖉ", "ᖊ", "ᖋ", "ᖌ", "ᖍ", "ᖎ", "ᖏ", "ᖐ", "ᖑ", "ᖒ", "ᖓ", "ᖔ", "ᖕ", "ᖖ", "ᖗ", "ᖘ",
     "ᖙ", "ᖚ", "ᖛ", "ᖜ", "ᖝ", "ᖞ", "ᖟ", "ᖠ", "ᖡ", "ᖢ", "ᖣ", "ᖤ", "ᖥ", "ᖦ", "ᖧ", "ᖨ",
     "ᖩ", "ᖪ", "ᖫ", "ᖬ", "ᖭ", "ᖮ", "ᖯ", "ᖰ", "ᖱ", "ᖲ", "ᖳ", "ᖴ", "ᖵ", "ᖶ", "ᖷ", "ᖸ",
     "ᖹ", "ᖺ", "ᖻ", "ᖼ", "ᖽ", "ᖾ", "ᖿ", "ᗀ", "ᗁ", "ᗂ", "ᗃ", "ᗄ", "ᗅ", "ᗆ", "ᗇ", "ᗈ",
     "ᗉ", "ᗊ", "ᗋ", "ᗌ", "ᗍ", "ᗎ", "ᗏ", "ᗐ", "ᗑ", "ᗒ", "ᗓ", "ᗔ", "ᗕ", "ᗖ", "ᗗ", "ᗘ",
     "ᗙ", "ᗚ", "ᗛ", "ᗜ", "ᗝ", "ᗞ", "ᗟ", "ᗠ", "ᗡ", "ᗢ", "ᗣ", "ᗤ", "ᗥ", "ᗦ", "ᗧ", "ᗨ",
     "ᗩ", "ᗪ", "ᗫ", "ᗬ", "ᗭ", "ᗮ", "ᗯ", "ᗰ", "ᗱ", "ᗲ", "ᗳ", "ᗴ", "ᗵ", "ᗶ", "ᗷ", "ᗸ",
     "ᗹ", "ᗺ", "ᗻ", "ᗼ", "ᗽ", "ᗾ", "ᗿ", "ᚁ", "ᚂ", "ᚃ", "ᚄ", "ᚅ", "ᚆ", "ᚇ", "ᚈ", "ᚉ",
     "ᚊ", "ᚋ", "ᚌ", "ᚍ", "ᚎ", "ᚏ", "ᚐ", "ᚑ", "ᚒ", "ᚓ", "ᚔ", "ᚕ", "ᚖ", "ᚗ", "ᚘ", "ᚙ",
     "ᚚ", "ᚠ", "ᚡ", "ᚢ", "ᚣ", "ᚤ", "ᚥ", "ᚦ", "ᚧ", "ᚨ", "ᚩ", "ᚪ", "ᚫ", "ᚬ", "ᚭ", "ᚮ",
     "ᚯ", "ᚰ", "ᚱ", "ᚲ", "ᚳ", "ᚴ", "ᚵ", "ᚶ", "ᚷ", "ᚸ", "ᚹ", "ᚺ", "ᚻ", "ᚼ", "ᚽ", "ᚾ",
     "ᚿ", "ᛀ", "ᛁ", "ᛂ", "ᛃ", "ᛄ", "ᛅ", "ᛆ", "ᛇ", "ᛈ", "ᛉ", "ᛊ", "ᛋ", "ᛌ", "ᛍ", "ᛎ",
     "ᛏ", "ᛐ", "ᛑ", "ᛒ", "ᛓ", "ᛔ", "ᛕ", "ᛖ", "ᛗ", "ᛘ", "ᛙ", "ᛚ", "ᛛ", "ᛜ", "ᛝ", "ᛞ",
     "ᛟ", "ᛠ", "ᛡ", "ᛢ", "ᛣ", "ᛤ", "ᛥ", "ᛦ", "ᛧ", "ᛨ", "ᛩ", "ᛪ", "ᛱ", "ᛲ", "ᛳ", "ᛴ",
     "ᛵ", "ᛶ", "ᛷ", "ᛸ", "ក", "ខ", "គ", "ឃ", "ង", "ច", "ឆ", "ជ", "ឈ", "ញ", "ដ", "ឋ",
     "ឌ", "ឍ", "ណ", "ត", "ថ", "ទ", "ធ", "ន", "ប", "ផ", "ព", "ភ", "ម", "យ", "រ", "ល",
     "វ", "ឝ", "ឞ", "ស", "ហ", "ឡ", "អ", "ឣ", "ឤ", "ឥ", "ឦ", "ឧ", "ឨ", "ឩ", "ឪ", "ឫ",
     "ឬ", "ឭ", "ឮ", "ឯ", "ឰ", "ឱ", "ឲ", "ឳ", "ៗ", "ៜ", "ᢀ", "ᢁ", "ᢂ", "ᢃ", "ᢄ", "ᢇ",
     "ᢈ", "ᢉ", "ᢊ", "ᢋ", "ᢌ", "ᢍ", "ᢎ", "ᢏ", "ᢐ", "ᢑ", "ᢒ", "ᢓ", "ᢔ", "ᢕ", "ᢖ", "ᢗ",
     "ᢘ", "ᢙ", "ᢚ", "ᢛ", "ᢜ", "ᢝ", "ᢞ", "ᢟ", "ᢠ", "ᢡ", "ᢢ", "ᢣ", "ᢤ", "ᢥ", "ᢦ", "ᢧ",
     "ᢨ", "ᢪ", "ᢰ", "ᢱ", "ᢲ", "ᢳ", "ᢴ", "ᢵ", "ᢶ", "ᢷ", "ᢸ", "ᢹ", "ᢺ", "ᢻ", "ᢼ", "ᢽ",
     "ᢾ", "ᢿ", "ᣀ", "ᣁ", "ᣂ", "ᣃ", "ᣄ", "ᣅ", "ᣆ", "ᣇ", "ᣈ", "ᣉ", "ᣊ", "ᣋ", "ᣌ", "ᣍ",
     "ᣎ", "ᣏ", "ᣐ", "ᣑ", "ᣒ", "ᣓ", "ᣔ", "ᣕ", "ᣖ", "ᣗ", "ᣘ", "ᣙ", "ᣚ", "ᣛ", "ᣜ", "ᣝ",
     "ᣞ", "ᣟ", "ᣠ", "ᣡ", "ᣢ", "ᣣ", "ᣤ", "ᣥ", "ᣦ", "ᣧ", "ᣨ", "ᣩ", "ᣪ", "ᣫ", "ᣬ", "ᣭ",
     "ᣮ", "ᣯ", "ᣰ", "ᣱ", "ᣲ", "ᣳ", "ᣴ", "ᣵ", "ᦀ", "ᦁ", "ᦂ", "ᦃ", "ᦄ", "ᦅ", "ᦆ", "ᦇ",
     "ᦈ", "ᦉ", "ᦊ", "ᦋ", "ᦌ", "ᦍ", "ᦎ", "ᦏ", "ᦐ", "ᦑ", "ᦒ", "ᦓ", "ᦔ", "ᦕ", "ᦖ", "ᦗ",
     "ᦘ", "ᦙ", "ᦚ", "ᦛ", "ᦜ", "ᦝ", "ᦞ", "ᦟ", "ᦠ", "ᦡ", "ᦢ", "ᦣ", "ᦤ", "ᦥ", "ᦦ", "ᦧ",
     "ᦨ", "ᦩ", "ᦪ", "ᦫ", "ᦰ", "ᦱ", "ᦲ", "ᦳ", "ᦴ", "ᦵ", "ᦶ", "ᦷ", "ᦸ", "ᦹ", "ᦺ", "ᦻ",
     "ᦼ", "ᦽ", "ᦾ", "ᦿ", "ᧀ", "ᧁ", "ᧂ", "ᧃ", "ᧄ", "ᧅ", "ᧆ", "ᧇ", "ᧈ", "ᧉ", "ᪧ", "ᮃ",
     "ᮄ", "ᮅ", "ᮆ", "ᮇ", "ᮈ", "ᮉ", "ᮊ", "ᮋ", "ᮌ", "ᮍ", "ᮎ", "ᮏ", "ᮐ", "ᮑ", "ᮒ", "ᮓ",
     "ᮔ", "ᮕ", "ᮖ", "ᮗ", "ᮘ", "ᮙ", "ᮚ", "ᮛ", "ᮜ", "ᮝ", "ᮞ", "ᮟ", "ᮠ", "ᮮ", "ᮯ", "ᮺ",
     "ᮻ", "ᮼ", "ᮽ", "ᮾ", "ᮿ", "ᯀ", "ᯁ", "ᯂ", "ᯃ", "ᯄ", "ᯅ", "ᯆ", "ᯇ", "ᯈ", "ᯉ", "ᯊ",
     "ᯋ", "ᯌ", "ᯍ", "ᯎ", "ᯏ", "ᯐ", "ᯑ", "ᯒ", "ᯓ", "ᯔ", "ᯕ", "ᯖ", "ᯗ", "ᯘ", "ᯙ", "ᯚ",
     "ᯛ", "ᯜ", "ᯝ", "ᯞ", "ᯟ", "ᯠ", "ᯡ", "ᯢ", "ᯣ", "ᯤ", "ᯥ", "ᲀ", "ᲁ", "ᲂ", "ᲃ", "ᲄ",
     "ᲅ", "ᲆ", "ᲇ", "ᲈ", "Ა", "Ბ", "Გ", "Დ", "Ე", "Ვ", "Ზ", "Თ", "Ი", "Კ", "Ლ", "Მ",
     "Ნ", "Ო", "Პ", "Ჟ", "Რ", "Ს", "Ტ", "Უ", "Ფ", "Ქ", "Ღ", "Ყ", "Შ", "Ჩ", "Ც", "Ძ",
     "Წ", "Ჭ", "Ხ", "Ჯ", "Ჰ", "Ჱ", "Ჲ", "Ჳ", "Ჴ", "Ჵ", "Ჶ", "Ჷ", "Ჸ", "Ჹ", "Ჺ", "Ჽ",
     "Ჾ", "Ჿ", "ᳩ", "ᳪ", "ᳫ", "ᳬ", "ᳮ", "ᳯ", "ᳰ", "ᳱ", "ᳲ", "ᳳ", "ᳵ", "ᳶ", "ᳺ", "ᶀ",
     "ᶁ", "ᶂ", "ᶃ", "ᶄ", "ᶅ", "ᶆ", "ᶇ", "ᶈ", "ᶉ", "ᶊ", "ᶋ", "ᶌ", "ᶍ", "ᶎ", "ᶏ", "ᶐ",
     "ᶑ", "ᶒ", "ᶓ", "ᶔ", "ᶕ", "ᶖ", "ᶗ", "ᶘ", "ᶙ", "ᶚ", "ᶛ", "ᶜ", "ᶝ", "ᶞ", "ᶟ", "ᶠ",
     "ᶡ", "ᶢ", "ᶣ", "ᶤ", "ᶥ", "ᶦ", "ᶧ", "ᶨ", "ᶩ", "ᶪ", "ᶫ", "ᶬ", "ᶭ", "ᶮ", "ᶯ", "ᶰ",
     "ᶱ", "ᶲ", "ᶳ", "ᶴ", "ᶵ", "ᶶ", "ᶷ", "ᶸ", "ᶹ", "ᶺ", "ᶻ", "ᶼ", "ᶽ", "ᶾ", "ᶿ", "Ẁ",
     "ẁ", "Ẃ", "ẃ", "Ẅ", "ẅ", "Ẇ", "ẇ", "Ẉ", "ẉ", "Ẋ", "ẋ", "Ẍ", "ẍ", "Ẏ", "ẏ", "Ẑ",
     "ẑ", "Ẓ", "ẓ", "Ẕ", "ẕ", "ẖ", "ẗ", "ẘ", "ẙ", "ẚ", "ẛ", "ẜ", "ẝ", "ẞ", "ẟ", "Ạ",
     "ạ", "Ả", "ả", "Ấ", "ấ", "Ầ", "ầ", "Ẩ", "ẩ", "Ẫ", "ẫ", "Ậ", "ậ", "Ắ", "ắ", "Ằ",
     "ằ", "Ẳ", "ẳ", "Ẵ", "ẵ", "Ặ", "ặ", "Ẹ", "ẹ", "Ẻ", "ẻ", "Ẽ", "ẽ", "Ế", "ế", "Ề",
     "ề", "Ể", "ể", "Ễ", "ễ", "Ệ", "ệ", "Ỉ", "ỉ", "Ị", "ị", "Ọ", "ọ", "Ỏ", "ỏ", "Ố",
     "ố", "Ồ", "ồ", "Ổ", "ổ", "Ỗ", "ỗ", "Ộ", "ộ", "Ớ", "ớ", "Ờ", "ờ", "Ở", "ở", "Ỡ",
     "ỡ", "Ợ", "ợ", "Ụ", "ụ", "Ủ", "ủ", "Ứ", "ứ", "Ừ", "ừ", "Ử", "ử", "Ữ", "ữ", "Ự",
     "ự", "Ỳ", "ỳ", "Ỵ", "ỵ", "Ỷ", "ỷ", "Ỹ", "ỹ", "Ỻ", "ỻ", "Ỽ", "ỽ", "Ỿ", "ỿ", "ᾀ",
     "ᾁ", "ᾂ", "ᾃ", "ᾄ", "ᾅ", "ᾆ", "ᾇ", "ᾈ", "ᾉ", "ᾊ", "ᾋ", "ᾌ", "ᾍ", "ᾎ", "ᾏ", "ᾐ",
     "ᾑ", "ᾒ", "ᾓ", "ᾔ", "ᾕ", "ᾖ", "ᾗ", "ᾘ", "ᾙ", "ᾚ", "ᾛ", "ᾜ", "ᾝ", "ᾞ", "ᾟ", "ᾠ",
     "ᾡ", "ᾢ", "ᾣ", "ᾤ", "ᾥ", "ᾦ", "ᾧ", "ᾨ", "ᾩ", "ᾪ", "ᾫ", "ᾬ", "ᾭ", "ᾮ", "ᾯ", "ᾰ",
     "ᾱ", "ᾲ", "ᾳ", "ᾴ", "ᾶ", "ᾷ", "Ᾰ", "Ᾱ", "Ὰ", "Ά", "ᾼ", "ι", "ῂ", "ῃ", "ῄ", "ῆ",
     "ῇ", "Ὲ", "Έ", "Ὴ", "Ή", "ῌ", "ῐ", "ῑ", "ῒ", "ΐ", "ῖ", "ῗ", "Ῐ", "Ῑ", "Ὶ", "Ί",
     "ῠ", "ῡ", "ῢ", "ΰ", "ῤ", "ῥ", "ῦ", "ῧ", "Ῠ", "Ῡ", "Ὺ", "Ύ", "Ῥ", "ῲ", "ῳ", "ῴ",
     "ῶ", "ῷ", "Ὸ", "Ό", "Ὼ", "Ώ", "ῼ", "ₐ", "ₑ", "ₒ", "ₓ", "ₔ", "ₕ", "ₖ", "ₗ", "ₘ",
     "ₙ", "ₚ", "ₛ", "ₜ", "Ↄ", "ↄ", "Ⲁ", "ⲁ", "Ⲃ", "ⲃ", "Ⲅ", "ⲅ", "Ⲇ", "ⲇ", "Ⲉ", "ⲉ",
     "Ⲋ", "ⲋ", "Ⲍ", "ⲍ", "Ⲏ", "ⲏ", "Ⲑ", "ⲑ", "Ⲓ", "ⲓ", "Ⲕ", "ⲕ", "Ⲗ", "ⲗ", "Ⲙ", "ⲙ",
     "Ⲛ", "ⲛ", "Ⲝ", "ⲝ", "Ⲟ", "ⲟ", "Ⲡ", "ⲡ", "Ⲣ", "ⲣ", "Ⲥ", "ⲥ", "Ⲧ", "ⲧ", "Ⲩ", "ⲩ",
     "Ⲫ", "ⲫ", "Ⲭ", "ⲭ", "Ⲯ", "ⲯ", "Ⲱ", "ⲱ", "Ⲳ", "ⲳ", "Ⲵ", "ⲵ", "Ⲷ", "ⲷ", "Ⲹ", "ⲹ",
     "Ⲻ", "ⲻ", "Ⲽ", "ⲽ", "Ⲿ", "ⲿ", "Ⳁ", "ⳁ", "Ⳃ", "ⳃ", "Ⳅ", "ⳅ", "Ⳇ", "ⳇ", "Ⳉ", "ⳉ",
     "Ⳋ", "ⳋ", "Ⳍ", "ⳍ", "Ⳏ", "ⳏ", "Ⳑ", "ⳑ", "Ⳓ", "ⳓ", "Ⳕ", "ⳕ", "Ⳗ", "ⳗ", "Ⳙ", "ⳙ",
     "Ⳛ", "ⳛ", "Ⳝ", "ⳝ", "Ⳟ", "ⳟ", "Ⳡ", "ⳡ", "Ⳣ", "ⳣ", "ⳤ", "Ⳬ", "ⳬ", "Ⳮ", "ⳮ", "Ⳳ",
     "ⳳ", "ⶀ", "ⶁ", "ⶂ", "ⶃ", "ⶄ", "ⶅ", "ⶆ", "ⶇ", "ⶈ", "ⶉ", "ⶊ", "ⶋ", "ⶌ", "ⶍ", "ⶎ",
     "ⶏ", "ⶐ", "ⶑ", "ⶒ", "ⶓ", "ⶔ", "ⶕ", "ⶖ", "ⶠ", "ⶡ", "ⶢ", "ⶣ", "ⶤ", "ⶥ", "ⶦ", "ⶨ",
     "ⶩ", "ⶪ", "ⶫ", "ⶬ", "ⶭ", "ⶮ", "ⶰ", "ⶱ", "ⶲ", "ⶳ", "ⶴ", "ⶵ", "ⶶ", "ⶸ", "ⶹ", "ⶺ",
     "ⶻ", "ⶼ", "ⶽ", "ⶾ", "ⷀ", "ⷁ", "ⷂ", "ⷃ", "ⷄ", "ⷅ", "ⷆ", "ⷈ", "ⷉ", "ⷊ", "ⷋ", "ⷌ",
     "ⷍ", "ⷎ", "ⷐ", "ⷑ", "ⷒ", "ⷓ", "ⷔ", "ⷕ", "ⷖ", "ⷘ", "ⷙ", "ⷚ", "ⷛ", "ⷜ", "ⷝ", "ⷞ",
     "む", "め", "も", "ゃ", "や", "ゅ", "ゆ", "ょ", "よ", "ら", "り", "る", "れ", "ろ", "ゎ", "わ",
     "ゐ", "ゑ", "を", "ん", "ゔ", "ゕ", "ゖ", "ゝ", "ゞ", "ゟ", "ァ", "ア", "ィ", "イ", "ゥ", "ウ",
     "ェ", "エ", "ォ", "オ", "カ", "ガ", "キ", "ギ", "ク", "グ", "ケ", "ゲ", "コ", "ゴ", "サ", "ザ",
     "シ", "ジ", "ス", "ズ", "セ", "ゼ", "ソ", "ゾ", "タ", "ダ", "チ", "ヂ", "ッ", "ツ", "ヅ", "テ",
     "デ", "ト", "ド", "ナ", "ニ", "ヌ", "ネ", "ノ", "ハ", "バ", "パ", "ヒ", "ビ", "ピ", "フ", "ブ",
     "プ", "ヘ", "ベ", "ペ", "ホ", "ボ", "ポ", "マ", "ミ", "ム", "メ", "モ", "ャ", "ヤ", "ュ", "ユ",
     "ョ", "ヨ", "ラ", "リ", "ル", "レ", "ロ", "ヮ", "ワ", "ヰ", "ヱ", "ヲ", "ン", "ヴ", "ヵ", "ヶ",
     "ヷ", "ヸ", "ヹ", "ヺ", "ー", "ヽ", "ヾ", "ヿ", "ㆀ", "ㆁ", "ㆂ", "ㆃ", "ㆄ", "ㆅ", "ㆆ", "ㆇ",
     "ㆈ", "ㆉ", "ㆊ", "ㆋ", "ㆌ", "ㆍ", "ㆎ", "ㆠ", "ㆡ", "ㆢ", "ㆣ", "ㆤ", "ㆥ", "ㆦ", "ㆧ", "ㆨ",
     "ㆩ", "ㆪ", "ㆫ", "ㆬ", "ㆭ", "ㆮ", "ㆯ", "ㆰ", "ㆱ", "ㆲ", "ㆳ", "ㆴ", "ㆵ", "ㆶ", "ㆷ", "ㆸ",
     "ㆹ", "ㆺ", "ㆻ", "ㆼ", "ㆽ", "ㆾ", "ㆿ", "ㇰ", "ㇱ", "ㇲ", "ㇳ", "ㇴ", "ㇵ", "ㇶ", "ㇷ", "ㇸ",
     "ㇹ", "ㇺ", "ㇻ", "ㇼ", "ㇽ", "ㇾ", "ㇿ", "㒀", "㒁", "㒂", "㒃", "㒄", "㒅", "㒆", "㒇", "㒈",
     "㒉", "㒊", "㒋", "㒌", "㒍", "㒎", "㒏", "㒐", "㒑", "㒒", "㒓", "㒔", "㒕", "㒖", "㒗", "㒘",
     "㒙", "㒚", "㒛", "㒜", "㒝", "㒞", "㒟", "㒠", "㒡", "㒢", "㒣", "㒤", "㒥", "㒦", "㒧", "㒨",
     "㒩", "㒪", "㒫", "㒬", "㒭", "㒮", "㒯", "㒰", "㒱", "㒲", "㒳", "㒴", "㒵", "㒶", "㒷", "㒸",
     "㒹", "㒺", "㒻", "㒼", "㒽", "㒾", "㒿", "㓀", "㓁", "㓂", "㓃", "㓄", "㓅", "㓆", "㓇", "㓈",
     "㓉", "㓊", "㓋", "㓌", "㓍", "㓎", "㓏", "㓐", "㓑", "㓒", "㓓", "㓔", "㓕", "㓖", "㓗", "㓘",
     "㓙", "㓚", "㓛", "㓜", "㓝", "㓞", "㓟", "㓠", "㓡", "㓢", "㓣", "㓤", "㓥", "㓦", "㓧", "㓨",
     "㓩", "㓪", "㓫", "㓬", "㓭", "㓮", "㓯", "㓰", "㓱", "㓲", "㓳", "㓴", "㓵", "㓶", "㓷", "㓸",
     "㓹", "㓺", "㓻", "㓼", "㓽", "㓾", "㓿", "㖀", "㖁", "㖂", "㖃", "㖄", "㖅", "㖆", "㖇", "㖈",
     "㖉", "㖊", "㖋", "㖌", "㖍", "㖎", "㖏", "㖐", "㖑", "㖒", "㖓", "㖔", "㖕", "㖖", "㖗", "㖘",
     "㖙", "㖚", "㖛", "㖜", "㖝", "㖞", "㖟", "㖠", "㖡", "㖢", "㖣", "㖤", "㖥", "㖦", "㖧", "㖨",
     "㖩", "㖪", "㖫", "㖬", "㖭", "㖮", "㖯", "㖰", "㖱", "㖲", "㖳", "㖴", "㖵", "㖶", "㖷", "㖸",
     "㖹", "㖺", "㖻", "㖼", "㖽", "㖾", "㖿", "㗀", "㗁", "㗂", "㗃", "㗄", "㗅", "㗆", "㗇", "㗈",
     "㗉", "㗊", "㗋", "㗌", "㗍", "㗎", "㗏", "㗐", "㗑", "㗒", "㗓", "㗔", "㗕", "㗖", "㗗", "㗘",
     "㗙", "㗚", "㗛", "㗜", "㗝", "㗞", "㗟", "㗠", "㗡", "㗢", "㗣", "㗤", "㗥", "㗦", "㗧", "㗨",
     "㗩", "㗪", "㗫", "㗬", "㗭", "㗮", "㗯", "㗰", "㗱", "㗲", "㗳", "㗴", "㗵", "㗶", "㗷", "㗸",
     "㗹", "㗺", "㗻", "㗼", "㗽", "㗾", "㗿", "㚀", "㚁", "㚂", "㚃", "㚄", "㚅", "㚆", "㚇", "㚈",
     "㚉", "㚊", "㚋", "㚌", "㚍", "㚎", "㚏", "㚐", "㚑", "㚒", "㚓", "㚔", "㚕", "㚖", "㚗", "㚘",
     "㚙", "㚚", "㚛", "㚜", "㚝", "㚞", "㚟", "㚠", "㚡", "㚢", "㚣", "㚤", "㚥", "㚦", "㚧", "㚨",
     "㚩", "㚪", "㚫", "㚬", "㚭", "㚮", "㚯", "㚰", "㚱", "㚲", "㚳", "㚴", "㚵", "㚶", "㚷", "㚸",
     "㚹", "㚺", "㚻", "㚼", "㚽", "㚾", "㚿", "㛀", "㛁", "㛂", "㛃", "㛄", "㛅", "㛆", "㛇", "㛈",
     "㛉", "㛊", "㛋", "㛌", "㛍", "㛎", "㛏", "㛐", "㛑", "㛒", "㛓", "㛔", "㛕", "㛖", "㛗", "㛘",
     "㛙", "㛚", "㛛", "㛜", "㛝", "㛞", "㛟", "㛠", "㛡", "㛢", "㛣", "㛤", "㛥", "㛦", "㛧", "㛨",
     "㛩", "㛪", "㛫", "㛬", "㛭", "㛮", "㛯", "㛰", "㛱", "㛲", "㛳", "㛴", "㛵", "㛶", "㛷", "㛸",
     "㛹", "㛺", "㛻", "㛼", "㛽", "㛾", "㛿", "㞀", "㞁", "㞂", "㞃", "㞄", "㞅", "㞆", "㞇", "㞈",
     "㞉", "㞊", "㞋", "㞌", "㞍", "㞎", "㞏", "㞐", "㞑", "㞒", "㞓", "㞔", "㞕", "㞖", "㞗", "㞘",
     "㞙", "㞚", "㞛", "㞜", "㞝", "㞞", "㞟", "㞠", "㞡", "㞢", "㞣", "㞤", "㞥", "㞦", "㞧", "㞨",
     "㞩", "㞪", "㞫", "㞬", "㞭", "㞮", "㞯", "㞰", "㞱", "㞲", "㞳", "㞴", "㞵", "㞶", "㞷", "㞸",
     "㞹", "㞺", "㞻", "㞼", "㞽", "㞾", "㞿", "㟀", "㟁", "㟂", "㟃", "㟄", "㟅", "㟆", "㟇", "㟈",
     "㟉", "㟊", "㟋", "㟌", "㟍", "㟎", "㟏", "㟐", "㟑", "㟒", "㟓", "㟔", "㟕", "㟖", "㟗", "㟘",
     "㟙", "㟚", "㟛", "㟜", "㟝", "㟞", "㟟", "㟠", "㟡", "㟢", "㟣", "㟤", "㟥", "㟦", "㟧", "㟨",
     "㟩", "㟪", "㟫", "㟬", "㟭", "㟮", "㟯", "㟰", "㟱", "㟲", "㟳", "㟴", "㟵", "㟶", "㟷", "㟸",
     "㟹", "㟺", "㟻", "㟼", "㟽", "㟾", "㟿", "㢀", "㢁", "㢂", "㢃", "㢄", "㢅", "㢆", "㢇", "㢈",
     "㢉", "㢊", "㢋", "㢌", "㢍", "㢎", "㢏", "㢐", "㢑", "㢒", "㢓", "㢔", "㢕", "㢖", "㢗", "㢘",
     "㢙", "㢚", "㢛", "㢜", "㢝", "㢞", "㢟", "㢠", "㢡", "㢢", "㢣", "㢤", "㢥", "㢦", "㢧", "㢨",
     "㢩", "㢪", "㢫", "㢬", "㢭", "㢮", "㢯", "㢰", "㢱", "㢲", "㢳", "㢴", "㢵", "㢶", "㢷", "㢸",
     "㢹", "㢺", "㢻", "㢼", "㢽", "㢾", "㢿", "㣀", "㣁", "㣂", "㣃", "㣄", "㣅", "㣆", "㣇", "㣈",
     "㣉", "㣊", "㣋", "㣌", "㣍", "㣎", "㣏", "㣐", "㣑", "㣒", "㣓", "㣔", "㣕", "㣖", "㣗", "㣘",
     "㣙", "㣚", "㣛", "㣜", "㣝", "㣞", "㣟", "㣠", "㣡", "㣢", "㣣", "㣤", "㣥", "㣦", "㣧", "㣨",
     "㣩", "㣪", "㣫", "㣬", "㣭", "㣮", "㣯", "㣰", "㣱", "㣲", "㣳", "㣴", "㣵", "㣶", "㣷", "㣸",
     "㣹", "㣺", "㣻", "㣼", "㣽", "㣾", "㣿", "㦀", "㦁", "㦂", "㦃", "㦄", "㦅", "㦆", "㦇", "㦈",
     "㦉", "㦊", "㦋", "㦌", "㦍", "㦎", "㦏", "㦐", "㦑", "㦒", "㦓", "㦔", "㦕", "㦖", "㦗", "㦘",
     "㦙", "㦚", "㦛", "㦜", "㦝", "㦞", "㦟", "㦠", "㦡", "㦢", "㦣", "㦤", "㦥", "㦦", "㦧", "㦨",
     "㦩", "㦪", "㦫", "㦬", "㦭", "㦮", "㦯", "㦰", "㦱", "㦲", "㦳", "㦴", "㦵", "㦶", "㦷", "㦸",
     "㦹", "㦺", "㦻", "㦼", "㦽", "㦾", "㦿", "㧀", "㧁", "㧂", "㧃", "㧄", "㧅", "㧆", "㧇", "㧈",
     "㧉", "㧊", "㧋", "㧌", "㧍", "㧎", "㧏", "㧐", "㧑", "㧒", "㧓", "㧔", "㧕", "㧖", "㧗", "㧘",
     "㧙", "㧚", "㧛", "㧜", "㧝", "㧞", "㧟", "㧠", "㧡", "㧢", "㧣", "㧤", "㧥", "㧦", "㧧", "㧨",
     "㧩", "㧪", "㧫", "㧬", "㧭", "㧮", "㧯", "㧰", "㧱", "㧲", "㧳", "㧴", "㧵", "㧶", "㧷", "㧸",
     "㧹", "㧺", "㧻", "㧼", "㧽", "㧾", "㧿", "㪀", "㪁", "㪂", "㪃", "㪄", "㪅", "㪆", "㪇", "㪈",
     "㪉", "㪊", "㪋", "㪌", "㪍", "㪎", "㪏", "㪐", "㪑", "㪒", "㪓", "㪔", "㪕", "㪖", "㪗", "㪘",
     "㪙", "㪚", "㪛", "㪜", "㪝", "㪞", "㪟", "㪠", "㪡", "㪢", "㪣", "㪤", "㪥", "㪦", "㪧", "㪨",
     "㪩", "㪪", "㪫", "㪬", "㪭", "㪮", "㪯", "㪰", "㪱", "㪲", "㪳", "㪴", "㪵", "㪶", "㪷", "㪸",
     "㪹", "㪺", "㪻", "㪼", "㪽", "㪾", "㪿", "㫀", "㫁", "㫂", "㫃", "㫄", "㫅", "㫆", "㫇", "㫈",
     "㫉", "㫊", "㫋", "㫌", "㫍", "㫎", "㫏", "㫐", "㫑", "㫒", "㫓", "㫔", "㫕", "㫖", "㫗", "㫘",
     "㫙", "㫚", "㫛", "㫜", "㫝", "㫞", "㫟", "㫠", "㫡", "㫢", "㫣", "㫤", "㫥", "㫦", "㫧", "㫨",
     "㫩", "㫪", "㫫", "㫬", "㫭", "㫮", "㫯", "㫰", "㫱", "㫲", "㫳", "㫴", "㫵", "㫶", "㫷", "㫸",
     "㫹", "㫺", "㫻", "㫼", "㫽", "㫾", "㫿", "㮀", "㮁", "㮂", "㮃", "㮄", "㮅", "㮆", "㮇", "㮈",
     "㮉", "㮊", "㮋", "㮌", "㮍", "㮎", "㮏", "㮐", "㮑", "㮒", "㮓", "㮔", "㮕", "㮖", "㮗", "㮘",
     "㮙", "㮚", "㮛", "㮜", "㮝", "㮞", "㮟", "㮠", "㮡", "㮢", "㮣", "㮤", "㮥", "㮦", "㮧", "㮨",
     "㮩", "㮪", "㮫", "㮬", "㮭", "㮮", "㮯", "㮰", "㮱", "㮲", "㮳", "㮴", "㮵", "㮶", "㮷", "㮸",
     "㮹", "㮺", "㮻", "㮼", "㮽", "㮾", "㮿", "㯀", "㯁", "㯂", "㯃", "㯄", "㯅", "㯆", "㯇", "㯈",
     "㯉", "㯊", "㯋", "㯌", "㯍", "㯎", "㯏", "㯐", "㯑", "㯒", "㯓", "㯔", "㯕", "㯖", "㯗", "㯘",
     "㯙", "㯚", "㯛", "㯜", "㯝", "㯞", "㯟", "㯠", "㯡", "㯢", "㯣", "㯤", "㯥", "㯦", "㯧", "㯨",
     "㯩", "㯪", "㯫", "㯬", "㯭", "㯮", "㯯", "㯰", "㯱", "㯲", "㯳", "㯴", "㯵", "㯶", "㯷", "㯸",
     "㯹", "㯺", "㯻", "㯼", "㯽", "㯾", "㯿", "㲀", "㲁", "㲂", "㲃", "㲄", "㲅", "㲆", "㲇", "㲈",
     "㲉", "㲊", "㲋", "㲌", "㲍", "㲎", "㲏", "㲐", "㲑", "㲒", "㲓", "㲔", "㲕", "㲖", "㲗", "㲘",
     "㲙", "㲚", "㲛", "㲜", "㲝", "㲞", "㲟", "㲠", "㲡", "㲢", "㲣", "㲤", "㲥", "㲦", "㲧", "㲨",
     "㲩", "㲪", "㲫", "㲬", "㲭", "㲮", "㲯", "㲰", "㲱", "㲲", "㲳", "㲴", "㲵", "㲶", "㲷", "㲸",
     "㲹", "㲺", "㲻", "㲼", "㲽", "㲾", "㲿", "㳀", "㳁", "㳂", "㳃", "㳄", "㳅", "㳆", "㳇", "㳈",
     "㳉", "㳊", "㳋", "㳌", "㳍", "㳎", "㳏", "㳐", "㳑", "㳒", "㳓", "㳔", "㳕", "㳖", "㳗", "㳘",
     "㳙", "㳚", "㳛", "㳜", "㳝", "㳞", "㳟", "㳠", "㳡", "㳢", "㳣", "㳤", "㳥", "㳦", "㳧", "㳨",
     "㳩", "㳪", "㳫", "㳬", "㳭", "㳮", "㳯", "㳰", "㳱", "㳲", "㳳", "㳴", "㳵", "㳶", "㳷", "㳸",
     "㳹", "㳺", "㳻", "㳼", "㳽", "㳾", "㳿", "㶀", "㶁", "㶂", "㶃", "㶄", "㶅", "㶆", "㶇", "㶈",
     "㶉", "㶊", "㶋", "㶌", "㶍", "㶎", "㶏", "㶐", "㶑", "㶒", "㶓", "㶔", "㶕", "㶖", "㶗", "㶘",
     "㶙", "㶚", "㶛", "㶜", "㶝", "㶞", "㶟", "㶠", "㶡", "㶢", "㶣", "㶤", "㶥", "㶦", "㶧", "㶨",
     "㶩", "㶪", "㶫", "㶬", "㶭", "㶮", "㶯", "㶰", "㶱", "㶲", "㶳", "㶴", "㶵", "㶶", "㶷", "㶸",
     "㶹", "㶺", "㶻", "㶼", "㶽", "㶾", "㶿", "㷀", "㷁", "㷂", "㷃", "㷄", "㷅", "㷆", "㷇", "㷈",
     "㷉", "㷊", "㷋", "㷌", "㷍", "㷎", "㷏", "㷐", "㷑", "㷒", "㷓", "㷔", "㷕", "㷖", "㷗", "㷘",
     "㷙", "㷚", "㷛", "㷜", "㷝", "㷞", "㷟", "㷠", "㷡", "㷢", "㷣", "㷤", "㷥", "㷦", "㷧", "㷨",
     "㷩", "㷪", "㷫", "㷬", "㷭", "㷮", "㷯", "㷰", "㷱", "㷲", "㷳", "㷴", "㷵", "㷶", "㷷", "㷸",
     "㷹", "㷺", "㷻", "㷼", "㷽", "㷾", "㷿", "㺀", "㺁", "㺂", "㺃", "㺄", "㺅", "㺆", "㺇", "㺈",
     "㺉", "㺊", "㺋", "㺌", "㺍", "㺎", "㺏", "㺐", "㺑", "㺒", "㺓", "㺔", "㺕", "㺖", "㺗", "㺘",
     "㺙", "㺚", "㺛", "㺜", "㺝", "㺞", "㺟", "㺠", "㺡", "㺢", "㺣", "㺤", "㺥", "㺦", "㺧", "㺨",
     "㺩", "㺪", "㺫", "㺬", "㺭", "㺮", "㺯", "㺰", "㺱", "㺲", "㺳", "㺴", "㺵", "㺶", "㺷", "㺸",
     "㺹", "㺺", "㺻", "㺼", "㺽", "㺾", "㺿", "㻀", "㻁", "㻂", "㻃", "㻄", "㻅", "㻆", "㻇", "㻈",
     "㻉", "㻊", "㻋", "㻌", "㻍", "㻎", "㻏", "㻐", "㻑", "㻒", "㻓", "㻔", "㻕", "㻖", "㻗", "㻘",
     "㻙", "㻚", "㻛", "㻜", "㻝", "㻞", "㻟", "㻠", "㻡", "㻢", "㻣", "㻤", "㻥", "㻦", "㻧", "㻨",
     "㻩", "㻪", "㻫", "㻬", "㻭", "㻮", "㻯", "㻰", "㻱", "㻲", "㻳", "㻴", "㻵", "㻶", "㻷", "㻸",
     "㻹", "㻺", "㻻", "㻼", "㻽", "㻾", "㻿", "㾀", "㾁", "㾂", "㾃", "㾄", "㾅", "㾆", "㾇", "㾈",
     "㾉", "㾊", "㾋", "㾌", "㾍", "㾎", "㾏", "㾐", "㾑", "㾒", "㾓", "㾔", "㾕", "㾖", "㾗", "㾘",
     "㾙", "㾚", "㾛", "㾜", "㾝", "㾞", "㾟", "㾠", "㾡", "㾢", "㾣", "㾤", "㾥", "㾦", "㾧", "㾨",
     "㾩", "㾪", "㾫", "㾬", "㾭", "㾮", "㾯", "㾰", "㾱", "㾲", "㾳", "㾴", "㾵", "㾶", "㾷", "㾸",
     "㾹", "㾺", "㾻", "㾼", "㾽", "㾾", "㾿", "㿀", "㿁", "㿂", "㿃", "㿄", "㿅", "㿆", "㿇", "㿈",
     "㿉", "㿊", "㿋", "㿌", "㿍", "㿎", "㿏", "㿐", "㿑", "㿒", "㿓", "㿔", "㿕", "㿖", "㿗", "㿘",
     "㿙", "㿚", "㿛", "㿜", "㿝", "㿞", "㿟", "㿠", "㿡", "㿢", "㿣", "㿤", "㿥", "㿦", "㿧", "㿨",
     "㿩", "㿪", "㿫", "㿬", "㿭", "㿮", "㿯", "㿰", "㿱", "㿲", "㿳", "㿴", "㿵", "㿶", "㿷", "㿸",
     "㿹", "㿺", "㿻", "㿼", "㿽", "㿾", "㿿", "䂀", "䂁", "䂂", "䂃", "䂄", "䂅", "䂆", "䂇", "䂈",
     "䂉", "䂊", "䂋", "䂌", "䂍", "䂎", "䂏", "䂐", "䂑", "䂒", "䂓", "䂔", "䂕", "䂖", "䂗", "䂘",
     "䂙", "䂚", "䂛", "䂜", "䂝", "䂞", "䂟", "䂠", "䂡", "䂢", "䂣", "䂤", "䂥", "䂦", "䂧", "䂨",
     "䂩", "䂪", "䂫", "䂬", "䂭", "䂮", "䂯", "䂰", "䂱", "䂲", "䂳", "䂴", "䂵", "䂶", "䂷", "䂸",
     "䂹", "䂺", "䂻", "䂼", "䂽", "䂾", "䂿", "䃀", "䃁", "䃂", "䃃", "䃄", "䃅", "䃆", "䃇", "䃈",
     "䃉", "䃊", "䃋", "䃌", "䃍", "䃎", "䃏", "䃐", "䃑", "䃒", "䃓", "䃔", "䃕", "䃖", "䃗", "䃘",
     "䃙", "䃚", "䃛", "䃜", "䃝", "䃞", "䃟", "䃠", "䃡", "䃢", "䃣", "䃤", "䃥", "䃦", "䃧", "䃨",
     "䃩", "䃪", "䃫", "䃬", "䃭", "䃮", "䃯", "䃰", "䃱", "䃲", "䃳", "䃴", "䃵", "䃶", "䃷", "䃸",
     "䃹", "䃺", "䃻", "䃼", "䃽", "䃾", "䃿", "䆀", "䆁", "䆂", "䆃", "䆄", "䆅", "䆆", "䆇", "䆈",
     "䆉", "䆊", "䆋", "䆌", "䆍", "䆎", "䆏", "䆐", "䆑", "䆒", "䆓", "䆔", "䆕", "䆖", "䆗", "䆘",
     "䆙", "䆚", "䆛", "䆜", "䆝", "䆞", "䆟", "䆠", "䆡", "䆢", "䆣", "䆤", "䆥", "䆦", "䆧", "䆨",
     "䆩", "䆪", "䆫", "䆬", "䆭", "䆮", "䆯", "䆰", "䆱", "䆲", "䆳", "䆴", "䆵", "䆶", "䆷", "䆸",
     "䆹", "䆺", "䆻", "䆼", "䆽", "䆾", "䆿", "䇀", "䇁", "䇂", "䇃", "䇄", "䇅", "䇆", "䇇", "䇈",
     "䇉", "䇊", "䇋", "䇌", "䇍", "䇎", "䇏", "䇐", "䇑", "䇒", "䇓", "䇔", "䇕", "䇖", "䇗", "䇘",
     "䇙", "䇚", "䇛", "䇜", "䇝", "䇞", "䇟", "䇠", "䇡", "䇢", "䇣", "䇤", "䇥", "䇦", "䇧", "䇨",
     "䇩", "䇪", "䇫", "䇬", "䇭", "䇮", "䇯", "䇰", "䇱", "䇲", "䇳", "䇴", "䇵", "䇶", "䇷", "䇸",
     "䇹", "䇺", "䇻", "䇼", "䇽", "䇾", "䇿", "䊀", "䊁", "䊂", "䊃", "䊄", "䊅", "䊆", "䊇", "䊈",
     "䊉", "䊊", "䊋", "䊌", "䊍", "䊎", "䊏", "䊐", "䊑", "䊒", "䊓", "䊔", "䊕", "䊖", "䊗", "䊘",
     "䊙", "䊚", "䊛", "䊜", "䊝", "䊞", "䊟", "䊠", "䊡", "䊢", "䊣", "䊤", "䊥", "䊦", "䊧", "䊨",
     "䊩", "䊪", "䊫", "䊬", "䊭", "䊮", "䊯", "䊰", "䊱", "䊲", "䊳", "䊴", "䊵", "䊶", "䊷", "䊸",
     "䊹", "䊺", "䊻", "䊼", "䊽", "䊾", "䊿", "䋀", "䋁", "䋂", "䋃", "䋄", "䋅", "䋆", "䋇", "䋈",
     "䋉", "䋊", "䋋", "䋌", "䋍", "䋎", "䋏", "䋐", "䋑", "䋒", "䋓", "䋔", "䋕", "䋖", "䋗", "䋘",
     "䋙", "䋚", "䋛", "䋜", "䋝", "䋞", "䋟", "䋠", "䋡", "䋢", "䋣", "䋤", "䋥", "䋦", "䋧", "䋨",
     "䋩", "䋪", "䋫", "䋬", "䋭", "䋮", "䋯", "䋰", "䋱", "䋲", "䋳", "䋴", "䋵", "䋶", "䋷", "䋸",
     "䋹", "䋺", "䋻", "䋼", "䋽", "䋾", "䋿", "䎀", "䎁", "䎂", "䎃", "䎄", "䎅", "䎆", "䎇", "䎈",
     "䎉", "䎊", "䎋", "䎌", "䎍", "䎎", "䎏", "䎐", "䎑", "䎒", "䎓", "䎔", "䎕", "䎖", "䎗", "䎘",
     "䎙", "䎚", "䎛", "䎜", "䎝", "䎞", "䎟", "䎠", "䎡", "䎢", "䎣", "䎤", "䎥", "䎦", "䎧", "䎨",
     "䎩", "䎪", "䎫", "䎬", "䎭", "䎮", "䎯", "䎰", "䎱", "䎲", "䎳", "䎴", "䎵", "䎶", "䎷", "䎸",
     "䎹", "䎺", "䎻", "䎼", "䎽", "䎾", "䎿", "䏀", "䏁", "䏂", "䏃", "䏄", "䏅", "䏆", "䏇", "䏈",
     "䏉", "䏊", "䏋", "䏌", "䏍", "䏎", "䏏", "䏐", "䏑", "䏒", "䏓", "䏔", "䏕", "䏖", "䏗", "䏘",
     "䏙", "䏚", "䏛", "䏜", "䏝", "䏞", "䏟", "䏠", "䏡", "䏢", "䏣", "䏤", "䏥", "䏦", "䏧", "䏨",
     "䏩", "䏪", "䏫", "䏬", "䏭", "䏮", "䏯", "䏰", "䏱", "䏲", "䏳", "䏴", "䏵", "䏶", "䏷", "䏸",
     "䏹", "䏺", "䏻", "䏼", "䏽", "䏾", "䏿", "䒀", "䒁", "䒂", "䒃", "䒄", "䒅", "䒆", "䒇", "䒈",
     "䒉", "䒊", "䒋", "䒌", "䒍", "䒎", "䒏", "䒐", "䒑", "䒒", "䒓", "䒔", "䒕", "䒖", "䒗", "䒘",
     "䒙", "䒚", "䒛", "䒜", "䒝", "䒞", "䒟", "䒠", "䒡", "䒢", "䒣", "䒤", "䒥", "䒦", "䒧", "䒨",
     "䒩", "䒪", "䒫", "䒬", "䒭", "䒮", "䒯", "䒰", "䒱", "䒲", "䒳", "䒴", "䒵", "䒶", "䒷", "䒸",
     "䒹", "䒺", "䒻", "䒼", "䒽", "䒾", "䒿", "䓀", "䓁", "䓂", "䓃", "䓄", "䓅", "䓆", "䓇", "䓈",
     "䓉", "䓊", "䓋", "䓌", "䓍", "䓎", "䓏", "䓐", "䓑", "䓒", "䓓", "䓔", "䓕", "䓖", "䓗", "䓘",
     "䓙", "䓚", "䓛", "䓜", "䓝", "䓞", "䓟", "䓠", "䓡", "䓢", "䓣", "䓤", "䓥", "䓦", "䓧", "䓨",
     "䓩", "䓪", "䓫", "䓬", "䓭", "䓮", "䓯", "䓰", "䓱", "䓲", "䓳", "䓴", "䓵", "䓶", "䓷", "䓸",
     "䓹", "䓺", "䓻", "䓼", "䓽", "䓾", "䓿", "䖀", "䖁", "䖂", "䖃", "䖄", "䖅", "䖆", "䖇", "䖈",
     "䖉", "䖊", "䖋", "䖌", "䖍", "䖎", "䖏", "䖐", "䖑", "䖒", "䖓", "䖔", "䖕", "䖖", "䖗", "䖘",
     "䖙", "䖚", "䖛", "䖜", "䖝", "䖞", "䖟", "䖠", "䖡", "䖢", "䖣", "䖤", "䖥", "䖦", "䖧", "䖨",
     "䖩", "䖪", "䖫", "䖬", "䖭", "䖮", "䖯", "䖰", "䖱", "䖲", "䖳", "䖴", "䖵", "䖶", "䖷", "䖸",
     "䖹", "䖺", "䖻", "䖼", "䖽", "䖾", "䖿", "䗀", "䗁", "䗂", "䗃", "䗄", "䗅", "䗆", "䗇", "䗈",
     "䗉", "䗊", "䗋", "䗌", "䗍", "䗎", "䗏", "䗐", "䗑", "䗒", "䗓", "䗔", "䗕", "䗖", "䗗", "䗘",
     "䗙", "䗚", "䗛", "䗜", "䗝", "䗞", "䗟", "䗠", "䗡", "䗢", "䗣", "䗤", "䗥", "䗦", "䗧", "䗨",
     "䗩", "䗪", "䗫", "䗬", "䗭", "䗮", "䗯", "䗰", "䗱", "䗲", "䗳", "䗴", "䗵", "䗶", "䗷", "䗸",
     "䗹", "䗺", "䗻", "䗼", "䗽", "䗾", "䗿", "䚀", "䚁", "䚂", "䚃", "䚄", "䚅", "䚆", "䚇", "䚈",
     "䚉", "䚊", "䚋", "䚌", "䚍", "䚎", "䚏", "䚐", "䚑", "䚒", "䚓", "䚔", "䚕", "䚖", "䚗", "䚘",
     "䚙", "䚚", "䚛", "䚜", "䚝", "䚞", "䚟", "䚠", "䚡", "䚢", "䚣", "䚤", "䚥", "䚦", "䚧", "䚨",
     "䚩", "䚪", "䚫", "䚬", "䚭", "䚮", "䚯", "䚰", "䚱", "䚲", "䚳", "䚴", "䚵", "䚶", "䚷", "䚸",
     "䚹", "䚺", "䚻", "䚼", "䚽", "䚾", "䚿", "䛀", "䛁", "䛂", "䛃", "䛄", "䛅", "䛆", "䛇", "䛈",
     "䛉", "䛊", "䛋", "䛌", "䛍", "䛎", "䛏", "䛐", "䛑", "䛒", "䛓", "䛔", "䛕", "䛖", "䛗", "䛘",
     "䛙", "䛚", "䛛", "䛜", "䛝", "䛞", "䛟", "䛠", "䛡", "䛢", "䛣", "䛤", "䛥", "䛦", "䛧", "䛨",
     "䛩", "䛪", "䛫", "䛬", "䛭", "䛮", "䛯", "䛰", "䛱", "䛲", "䛳", "䛴", "䛵", "䛶", "䛷", "䛸",
     "䛹", "䛺", "䛻", "䛼", "䛽", "䛾", "䛿", "䞀", "䞁", "䞂", "䞃", "䞄", "䞅", "䞆", "䞇", "䞈",
     "䞉", "䞊", "䞋", "䞌", "䞍", "䞎", "䞏", "䞐", "䞑", "䞒", "䞓", "䞔", "䞕", "䞖", "䞗", "䞘",
     "䞙", "䞚", "䞛", "䞜", "䞝", "䞞", "䞟", "䞠", "䞡", "䞢", "䞣", "䞤", "䞥", "䞦", "䞧", "䞨",
     "䞩", "䞪", "䞫", "䞬", "䞭", "䞮", "䞯", "䞰", "䞱", "䞲", "䞳", "䞴", "䞵", "䞶", "䞷", "䞸",
     "䞹", "䞺", "䞻", "䞼", "䞽", "䞾", "䞿", "䟀", "䟁", "䟂", "䟃", "䟄", "䟅", "䟆", "䟇", "䟈",
     "䟉", "䟊", "䟋", "䟌", "䟍", "䟎", "䟏", "䟐", "䟑", "䟒", "䟓", "䟔", "䟕", "䟖", "䟗", "䟘",
     "䟙", "䟚", "䟛", "䟜", "䟝", "䟞", "䟟", "䟠", "䟡", "䟢", "䟣", "䟤", "䟥", "䟦", "䟧", "䟨",
     "䟩", "䟪", "䟫", "䟬", "䟭", "䟮", "䟯", "䟰", "䟱", "䟲", "䟳", "䟴", "䟵", "䟶", "䟷", "䟸",
     "䟹", "䟺", "䟻", "䟼", "䟽", "䟾", "䟿", "䢀", "䢁", "䢂", "䢃", "䢄", "䢅", "䢆", "䢇", "䢈",
     "䢉", "䢊", "䢋", "䢌", "䢍", "䢎", "䢏", "䢐", "䢑", "䢒", "䢓", "䢔", "䢕", "䢖", "䢗", "䢘",
     "䢙", "䢚", "䢛", "䢜", "䢝", "䢞", "䢟", "䢠", "䢡", "䢢", "䢣", "䢤", "䢥", "䢦", "䢧", "䢨",
     "䢩", "䢪", "䢫", "䢬", "䢭", "䢮", "䢯", "䢰", "䢱", "䢲", "䢳", "䢴", "䢵", "䢶", "䢷", "䢸",
     "䢹", "䢺", "䢻", "䢼", "䢽", "䢾", "䢿", "䣀", "䣁", "䣂", "䣃", "䣄", "䣅", "䣆", "䣇", "䣈",
     "䣉", "䣊", "䣋", "䣌", "䣍", "䣎", "䣏", "䣐", "䣑", "䣒", "䣓", "䣔", "䣕", "䣖", "䣗", "䣘",
     "䣙", "䣚", "䣛", "䣜", "䣝", "䣞", "䣟", "䣠", "䣡", "䣢", "䣣", "䣤", "䣥", "䣦", "䣧", "䣨",
     "䣩", "䣪", "䣫", "䣬", "䣭", "䣮", "䣯", "䣰", "䣱", "䣲", "䣳", "䣴", "䣵", "䣶", "䣷", "䣸",
     "䣹", "䣺", "䣻", "䣼", "䣽", "䣾", "䣿", "䦀", "䦁", "䦂", "䦃", "䦄", "䦅", "䦆", "䦇", "䦈",
     "䦉", "䦊", "䦋", "䦌", "䦍", "䦎", "䦏", "䦐", "䦑", "䦒", "䦓", "䦔", "䦕", "䦖", "䦗", "䦘",
     "䦙", "䦚", "䦛", "䦜", "䦝", "䦞", "䦟", "䦠", "䦡", "䦢", "䦣", "䦤", "䦥", "䦦", "䦧", "䦨",
     "䦩", "䦪", "䦫", "䦬", "䦭", "䦮", "䦯", "䦰", "䦱", "䦲", "䦳", "䦴", "䦵", "䦶", "䦷", "䦸",
     "䦹", "䦺", "䦻", "䦼", "䦽", "䦾", "䦿", "䧀", "䧁", "䧂", "䧃", "䧄", "䧅", "䧆", "䧇", "䧈",
     "䧉", "䧊", "䧋", "䧌", "䧍", "䧎", "䧏", "䧐", "䧑", "䧒", "䧓", "䧔", "䧕", "䧖", "䧗", "䧘",
     "䧙", "䧚", "䧛", "䧜", "䧝", "䧞", "䧟", "䧠", "䧡", "䧢", "䧣", "䧤", "䧥", "䧦", "䧧", "䧨",
     "䧩", "䧪", "䧫", "䧬", "䧭", "䧮", "䧯", "䧰", "䧱", "䧲", "䧳", "䧴", "䧵", "䧶", "䧷", "䧸",
     "䧹", "䧺", "䧻", "䧼", "䧽", "䧾", "䧿", "䪀", "䪁", "䪂", "䪃", "䪄", "䪅", "䪆", "䪇", "䪈",
     "䪉", "䪊", "䪋", "䪌", "䪍", "䪎", "䪏", "䪐", "䪑", "䪒", "䪓", "䪔", "䪕", "䪖", "䪗", "䪘",
     "䪙", "䪚", "䪛", "䪜", "䪝", "䪞", "䪟", "䪠", "䪡", "䪢", "䪣", "䪤", "䪥", "䪦", "䪧", "䪨",
     "䪩", "䪪", "䪫", "䪬", "䪭", "䪮", "䪯", "䪰", "䪱", "䪲", "䪳", "䪴", "䪵", "䪶", "䪷", "䪸",
     "䪹", "䪺", "䪻", "䪼", "䪽", "䪾", "䪿", "䫀", "䫁", "䫂", "䫃", "䫄", "䫅", "䫆", "䫇", "䫈",
     "䫉", "䫊", "䫋", "䫌", "䫍", "䫎", "䫏", "䫐", "䫑", "䫒", "䫓", "䫔", "䫕", "䫖", "䫗", "䫘",
     "䫙", "䫚", "䫛", "䫜", "䫝", "䫞", "䫟", "䫠", "䫡", "䫢", "䫣", "䫤", "䫥", "䫦", "䫧", "䫨",
     "䫩", "䫪", "䫫", "䫬", "䫭", "䫮", "䫯", "䫰", "䫱", "䫲", "䫳", "䫴", "䫵", "䫶", "䫷", "䫸",
     "䫹", "䫺", "䫻", "䫼", "䫽", "䫾", "䫿", "䮀", "䮁", "䮂", "䮃", "䮄", "䮅", "䮆", "䮇", "䮈",
     "䮉", "䮊", "䮋", "䮌", "䮍", "䮎", "䮏", "䮐", "䮑", "䮒", "䮓", "䮔", "䮕", "䮖", "䮗", "䮘",
     "䮙", "䮚", "䮛", "䮜", "䮝", "䮞", "䮟", "䮠", "䮡", "䮢", "䮣", "䮤", "䮥", "䮦", "䮧", "䮨",
     "䮩", "䮪", "䮫", "䮬", "䮭", "䮮", "䮯", "䮰", "䮱", "䮲", "䮳", "䮴", "䮵", "䮶", "䮷", "䮸",
     "䮹", "䮺", "䮻", "䮼", "䮽", "䮾", "䮿", "䯀", "䯁", "䯂", "䯃", "䯄", "䯅", "䯆", "䯇", "䯈",
     "䯉", "䯊", "䯋", "䯌", "䯍", "䯎", "䯏", "䯐", "䯑", "䯒", "䯓", "䯔", "䯕", "䯖", "䯗", "䯘",
     "䯙", "䯚", "䯛", "䯜", "䯝", "䯞", "䯟", "䯠", "䯡", "䯢", "䯣", "䯤", "䯥", "䯦", "䯧", "䯨",
     "䯩", "䯪", "䯫", "䯬", "䯭", "䯮", "䯯", "䯰", "䯱", "䯲", "䯳", "䯴", "䯵", "䯶", "䯷", "䯸",
     "䯹", "䯺", "䯻", "䯼", "䯽", "䯾", "䯿", "䲀", "䲁", "䲂", "䲃", "䲄", "䲅", "䲆", "䲇", "䲈",
     "䲉", "䲊", "䲋", "䲌", "䲍", "䲎", "䲏", "䲐", "䲑", "䲒", "䲓", "䲔", "䲕", "䲖", "䲗", "䲘",
     "䲙", "䲚", "䲛", "䲜", "䲝", "䲞", "䲟", "䲠", "䲡", "䲢", "䲣", "䲤", "䲥", "䲦", "䲧", "䲨",
     "䲩", "䲪", "䲫", "䲬", "䲭", "䲮", "䲯", "䲰", "䲱", "䲲", "䲳", "䲴", "䲵", "䲶", "䲷", "䲸",
     "䲹", "䲺", "䲻", "䲼", "䲽", "䲾", "䲿", "䳀", "䳁", "䳂", "䳃", "䳄", "䳅", "䳆", "䳇", "䳈",
     "䳉", "䳊", "䳋", "䳌", "䳍", "䳎", "䳏", "䳐", "䳑", "䳒", "䳓", "䳔", "䳕", "䳖", "䳗", "䳘",
     "䳙", "䳚", "䳛", "䳜", "䳝", "䳞", "䳟", "䳠", "䳡", "䳢", "䳣", "䳤", "䳥", "䳦", "䳧", "䳨",
     "䳩", "䳪", "䳫", "䳬", "䳭", "䳮", "䳯", "䳰", "䳱", "䳲", "䳳", "䳴", "䳵", "䳶", "䳷", "䳸",
     "䳹", "䳺", "䳻", "䳼", "䳽", "䳾", "䳿", "䶀", "䶁", "䶂", "䶃", "䶄", "䶅", "䶆", "䶇", "䶈",
     "䶉", "䶊", "䶋", "䶌", "䶍", "䶎", "䶏", "䶐", "䶑", "䶒", "䶓", "䶔", "䶕", "䶖", "䶗", "䶘",
     "䶙", "䶚", "䶛", "䶜", "䶝", "䶞", "䶟", "䶠", "䶡", "䶢", "䶣", "䶤", "䶥", "䶦", "䶧", "䶨",
     "䶩", "䶪", "䶫", "䶬", "䶭", "䶮", "䶯", "䶰", "䶱", "䶲", "䶳", "䶴", "䶵", "䶶", "䶷", "䶸",
     "䶹", "䶺", "䶻", "䶼", "䶽", "䶾", "䶿", "亀", "亁", "亂", "亃", "亄", "亅", "了", "亇", "予",
     "争", "亊", "事", "二", "亍", "于", "亏", "亐", "云", "互", "亓", "五", "井", "亖", "亗", "亘",
     "亙", "亚", "些", "亜", "亝", "亞", "亟", "亠", "亡", "亢", "亣", "交", "亥", "亦", "产", "亨",
     "亩", "亪", "享", "京", "亭", "亮", "亯", "亰", "亱", "亲", "亳", "亴", "亵", "亶", "亷", "亸",
     "亹", "人", "亻", "亼", "亽", "亾", "亿", "什", "仁", "仂", "仃", "仄", "仅", "仆", "仇", "仈",
     "仉", "今", "介", "仌", "仍", "从", "仏", "仐", "仑", "仒", "仓", "仔", "仕", "他", "仗", "付",
     "仙", "仚", "仛", "仜", "仝", "仞", "仟", "仠", "仡", "仢", "代", "令", "以", "仦", "仧", "仨",
     "仩", "仪", "仫", "们", "仭", "仮", "仯", "仰", "仱", "仲", "仳", "仴", "仵", "件", "价", "仸",
     "仹", "仺", "任", "仼", "份", "仾", "仿", "侀", "侁", "侂", "侃", "侄", "侅", "來", "侇", "侈",
     "侉", "侊", "例", "侌", "侍", "侎", "侏", "侐", "侑", "侒", "侓", "侔", "侕", "侖", "侗", "侘",
     "侙", "侚", "供", "侜", "依", "侞", "侟", "侠", "価", "侢", "侣", "侤", "侥", "侦", "侧", "侨",
     "侩", "侪", "侫", "侬", "侭", "侮", "侯", "侰", "侱", "侲", "侳", "侴", "侵", "侶", "侷", "侸",
     "侹", "侺", "侻", "侼", "侽", "侾", "便", "俀", "俁", "係", "促", "俄", "俅", "俆", "俇", "俈",
     "俉", "俊", "俋", "俌", "俍", "俎", "俏", "俐", "俑", "俒", "俓", "俔", "俕", "俖", "俗", "俘",
     "俙", "俚", "俛", "俜", "保", "俞", "俟", "俠", "信", "俢", "俣", "俤", "俥", "俦", "俧", "俨",
     "俩", "俪", "俫", "俬", "俭", "修", "俯", "俰", "俱", "俲", "俳", "俴", "俵", "俶", "俷", "俸",
     "俹", "俺", "俻", "俼", "俽", "俾", "俿", "傀", "傁", "傂", "傃", "傄", "傅", "傆", "傇", "傈",
     "傉", "傊", "傋", "傌", "傍", "傎", "傏", "傐", "傑", "傒", "傓", "傔", "傕", "傖", "傗", "傘",
     "備", "傚", "傛", "傜", "傝", "傞", "傟", "傠", "傡", "傢", "傣", "傤", "傥", "傦", "傧", "储",
     "傩", "傪", "傫", "催", "傭", "傮", "傯", "傰", "傱", "傲", "傳", "傴", "債", "傶", "傷", "傸",
     "傹", "傺", "傻", "傼", "傽", "傾", "傿", "僀", "僁", "僂", "僃", "僄", "僅", "僆", "僇", "僈",
     "僉", "僊", "僋", "僌", "働", "僎", "像", "僐", "僑", "僒", "僓", "僔", "僕", "僖", "僗", "僘",
     "僙", "僚", "僛", "僜", "僝", "僞", "僟", "僠", "僡", "僢", "僣", "僤", "僥", "僦", "僧", "僨",
     "僩", "僪", "僫", "僬", "僭", "僮", "僯", "僰", "僱", "僲", "僳", "僴", "僵", "僶", "僷", "僸",
     "價", "僺", "僻", "僼", "僽", "僾", "僿", "冀", "冁", "冂", "冃", "冄", "内", "円", "冇", "冈",
     "冉", "冊", "冋", "册", "再", "冎", "冏", "冐", "冑", "冒", "冓", "冔", "冕", "冖", "冗", "冘",
     "写", "冚", "军", "农", "冝", "冞", "冟", "冠", "冡", "冢", "冣", "冤", "冥", "冦", "冧", "冨",
     "冩", "冪", "冫", "冬", "冭", "冮", "冯", "冰", "冱", "冲", "决", "冴", "况", "冶", "冷", "冸",
     "冹", "冺", "冻", "冼", "冽", "冾", "冿", "净", "凁", "凂", "凃", "凄", "凅", "准", "凇", "凈",
     "凉", "凊", "凋", "凌", "凍", "凎", "减", "凐", "凑", "凒", "凓", "凔", "凕", "凖", "凗", "凘",
     "凙", "凚", "凛", "凜", "凝", "凞", "凟", "几", "凡", "凢", "凣", "凤", "凥", "処", "凧", "凨",
     "凩", "凪", "凫", "凬", "凭", "凮", "凯", "凰", "凱", "凲", "凳", "凴", "凵", "凶", "凷", "凸",
     "凹", "出", "击", "凼", "函", "凾", "凿", "劀", "劁", "劂", "劃", "劄", "劅", "劆", "劇", "劈",
     "劉", "劊", "劋", "劌", "劍", "劎", "劏", "劐", "劑", "劒", "劓", "劔", "劕", "劖", "劗", "劘",
     "劙", "劚", "力", "劜", "劝", "办", "功", "加", "务", "劢", "劣", "劤", "劥", "劦", "劧", "动",
     "助", "努", "劫", "劬", "劭", "劮", "劯", "劰", "励", "劲", "劳", "労", "劵", "劶", "劷", "劸",
     "効", "劺", "劻", "劼", "劽", "劾", "势", "勀", "勁", "勂", "勃", "勄", "勅", "勆", "勇", "勈",
     "勉", "勊", "勋", "勌", "勍", "勎", "勏", "勐", "勑", "勒", "勓", "勔", "動", "勖", "勗", "勘",
     "務", "勚", "勛", "勜", "勝", "勞", "募", "勠", "勡", "勢", "勣", "勤", "勥", "勦", "勧", "勨",
     "勩", "勪", "勫", "勬", "勭", "勮", "勯", "勰", "勱", "勲", "勳", "勴", "勵", "勶", "勷", "勸",
     "勹", "勺", "勻", "勼", "勽", "勾", "勿", "厀", "厁", "厂", "厃", "厄", "厅", "历", "厇", "厈",
     "厉", "厊", "压", "厌", "厍", "厎", "厏", "厐", "厑", "厒", "厓", "厔", "厕", "厖", "厗", "厘",
     "厙", "厚", "厛", "厜", "厝", "厞", "原", "厠", "厡", "厢", "厣", "厤", "厥", "厦", "厧", "厨",
     "厩", "厪", "厫", "厬", "厭", "厮", "厯", "厰", "厱", "厲", "厳", "厴", "厵", "厶", "厷", "厸",
     "厹", "厺", "去", "厼", "厽", "厾", "县", "叀", "叁", "参", "參", "叄", "叅", "叆", "叇", "又",
     "叉", "及", "友", "双", "反", "収", "叏", "叐", "发", "叒", "叓", "叔", "叕", "取", "受", "变",
     "叙", "叚", "叛", "叜", "叝", "叞", "叟", "叠", "叡", "叢", "口", "古", "句", "另", "叧", "叨",
     "叩", "只", "叫", "召", "叭", "叮", "可", "台", "叱", "史", "右", "叴", "叵", "叶", "号", "司",
     "叹", "叺", "叻", "叼", "叽", "叾", "叿", "咀", "咁", "咂", "咃", "咄", "咅", "咆", "咇", "咈",
     "咉", "咊", "咋", "和", "咍", "咎", "咏", "咐", "咑", "咒", "咓", "咔", "咕", "咖", "咗", "咘",
     "咙", "咚", "咛", "咜", "咝", "咞", "咟", "咠", "咡", "咢", "咣", "咤", "咥", "咦", "咧", "咨",
     "咩", "咪", "咫", "咬", "咭", "咮", "咯", "咰", "咱", "咲", "咳", "咴", "咵", "咶", "咷", "咸",
     "咹", "咺", "咻", "咼", "咽", "咾", "咿", "哀", "品", "哂", "哃", "哄", "哅", "哆", "哇", "哈",
     "哉", "哊", "哋", "哌", "响", "哎", "哏", "哐", "哑", "哒", "哓", "哔", "哕", "哖", "哗", "哘",
     "哙", "哚", "哛", "哜", "哝", "哞", "哟", "哠", "員", "哢", "哣", "哤", "哥", "哦", "哧", "哨",
     "哩", "哪", "哫", "哬", "哭", "哮", "哯", "哰", "哱", "哲", "哳", "哴", "哵", "哶", "哷", "哸",
     "哹", "哺", "哻", "哼", "哽", "哾", "哿", "喀", "喁", "喂", "喃", "善", "喅", "喆", "喇", "喈",
     "喉", "喊", "喋", "喌", "喍", "喎", "喏", "喐", "喑", "喒", "喓", "喔", "喕", "喖", "喗", "喘",
     "喙", "喚", "喛", "喜", "喝", "喞", "喟", "喠", "喡", "喢", "喣", "喤", "喥", "喦", "喧", "喨",
     "喩", "喪", "喫", "喬", "喭", "單", "喯", "喰", "喱", "喲", "喳", "喴", "喵", "営", "喷", "喸",
     "喹", "喺", "喻", "喼", "喽", "喾", "喿", "嗀", "嗁", "嗂", "嗃", "嗄", "嗅", "嗆", "嗇", "嗈",
     "嗉", "嗊", "嗋", "嗌", "嗍", "嗎", "嗏", "嗐", "嗑", "嗒", "嗓", "嗔", "嗕", "嗖", "嗗", "嗘",
     "嗙", "嗚", "嗛", "嗜", "嗝", "嗞", "嗟", "嗠", "嗡", "嗢", "嗣", "嗤", "嗥", "嗦", "嗧", "嗨",
     "嗩", "嗪", "嗫", "嗬", "嗭", "嗮", "嗯", "嗰", "嗱", "嗲", "嗳", "嗴", "嗵", "嗶", "嗷", "嗸",
     "嗹", "嗺", "嗻", "嗼", "嗽", "嗾", "嗿", "嚀", "嚁", "嚂", "嚃", "嚄", "嚅", "嚆", "嚇", "嚈",
     "嚉", "嚊", "嚋", "嚌", "嚍", "嚎", "嚏", "嚐", "嚑", "嚒", "嚓", "嚔", "嚕", "嚖", "嚗", "嚘",
     "嚙", "嚚", "嚛", "嚜", "嚝", "嚞", "嚟", "嚠", "嚡", "嚢", "嚣", "嚤", "嚥", "嚦", "嚧", "嚨",
     "嚩", "嚪", "嚫", "嚬", "嚭", "嚮", "嚯", "嚰", "嚱", "嚲", "嚳", "嚴", "嚵", "嚶", "嚷", "嚸",
     "嚹", "嚺", "嚻", "嚼", "嚽", "嚾", "嚿", "囀", "囁", "囂", "囃", "囄", "囅", "囆", "囇", "囈",
     "囉", "囊", "囋", "囌", "囍", "囎", "囏", "囐", "囑", "囒", "囓", "囔", "囕", "囖", "囗", "囘",
     "囙", "囚", "四", "囜", "囝", "回", "囟", "因", "囡", "团", "団", "囤", "囥", "囦", "囧", "囨",
     "囩", "囪", "囫", "囬", "园", "囮", "囯", "困", "囱", "囲", "図", "围", "囵", "囶", "囷", "囸",
     "囹", "固", "囻", "囼", "国", "图", "囿", "垀", "垁", "垂", "垃", "垄", "垅", "垆", "垇", "垈",
     "垉", "垊", "型", "垌", "垍", "垎", "垏", "垐", "垑", "垒", "垓", "垔", "垕", "垖", "垗", "垘",
     "垙", "垚", "垛", "垜", "垝", "垞", "垟", "垠", "垡", "垢", "垣", "垤", "垥", "垦", "垧", "垨",
     "垩", "垪", "垫", "垬", "垭", "垮", "垯", "垰", "垱", "垲", "垳", "垴", "垵", "垶", "垷", "垸",
     "垹", "垺", "垻", "垼", "垽", "垾", "垿", "埀", "埁", "埂", "埃", "埄", "埅", "埆", "埇", "埈",
     "埉", "埊", "埋", "埌", "埍", "城", "埏", "埐", "埑", "埒", "埓", "埔", "埕", "埖", "埗", "埘",
     "埙", "埚", "埛", "埜", "埝", "埞", "域", "埠", "埡", "埢", "埣", "埤", "埥", "埦", "埧", "埨",
     "埩", "埪", "埫", "埬", "埭", "埮", "埯", "埰", "埱", "埲", "埳", "埴", "埵", "埶", "執", "埸",
     "培", "基", "埻", "埼", "埽", "埾", "埿", "墀", "墁", "墂", "境", "墄", "墅", "墆", "墇", "墈",
     "墉", "墊", "墋", "墌", "墍", "墎", "墏", "墐", "墑", "墒", "墓", "墔", "墕", "墖", "増", "墘",
     "墙", "墚", "墛", "墜", "墝", "增", "墟", "墠", "墡", "墢", "墣", "墤", "墥", "墦", "墧", "墨",
     "墩", "墪", "墫", "墬", "墭", "墮", "墯", "墰", "墱", "墲", "墳", "墴", "墵", "墶", "墷", "墸",
     "墹", "墺", "墻", "墼", "墽", "墾", "墿", "壀", "壁", "壂", "壃", "壄", "壅", "壆", "壇", "壈",
     "壉", "壊", "壋", "壌", "壍", "壎", "壏", "壐", "壑", "壒", "壓", "壔", "壕", "壖", "壗", "壘",
     "壙", "壚", "壛", "壜", "壝", "壞", "壟", "壠", "壡", "壢", "壣", "壤", "壥", "壦", "壧", "壨",
     "壩", "壪", "士", "壬", "壭", "壮", "壯", "声", "壱", "売", "壳", "壴", "壵", "壶", "壷", "壸",
     "壹", "壺", "壻", "壼", "壽", "壾", "壿", "妀", "妁", "如", "妃", "妄", "妅", "妆", "妇", "妈",
     "妉", "妊", "妋", "妌", "妍", "妎", "妏", "妐", "妑", "妒", "妓", "妔", "妕", "妖", "妗", "妘",
     "妙", "妚", "妛", "妜", "妝", "妞", "妟", "妠", "妡", "妢", "妣", "妤", "妥", "妦", "妧", "妨",
     "妩", "妪", "妫", "妬", "妭", "妮", "妯", "妰", "妱", "妲", "妳", "妴", "妵", "妶", "妷", "妸",
     "妹", "妺", "妻", "妼", "妽", "妾", "妿", "姀", "姁", "姂", "姃", "姄", "姅", "姆", "姇", "姈",
     "姉", "姊", "始", "姌", "姍", "姎", "姏", "姐", "姑", "姒", "姓", "委", "姕", "姖", "姗", "姘",
     "姙", "姚", "姛", "姜", "姝", "姞", "姟", "姠", "姡", "姢", "姣", "姤", "姥", "姦", "姧", "姨",
     "姩", "姪", "姫", "姬", "姭", "姮", "姯", "姰", "姱", "姲", "姳", "姴", "姵", "姶", "姷", "姸",
     "姹", "姺", "姻", "姼", "姽", "姾", "姿", "媀", "媁", "媂", "媃", "媄", "媅", "媆", "媇", "媈",
     "媉", "媊", "媋", "媌", "媍", "媎", "媏", "媐", "媑", "媒", "媓", "媔", "媕", "媖", "媗", "媘",
     "媙", "媚", "媛", "媜", "媝", "媞", "媟", "媠", "媡", "媢", "媣", "媤", "媥", "媦", "媧", "媨",
     "媩", "媪", "媫", "媬", "媭", "媮", "媯", "媰", "媱", "媲", "媳", "媴", "媵", "媶", "媷", "媸",
     "媹", "媺", "媻", "媼", "媽", "媾", "媿", "嫀", "嫁", "嫂", "嫃", "嫄", "嫅", "嫆", "嫇", "嫈",
     "嫉", "嫊", "嫋", "嫌", "嫍", "嫎", "嫏", "嫐", "嫑", "嫒", "嫓", "嫔", "嫕", "嫖", "嫗", "嫘",
     "嫙", "嫚", "嫛", "嫜", "嫝", "嫞", "嫟", "嫠", "嫡", "嫢", "嫣", "嫤", "嫥", "嫦", "嫧", "嫨",
     "嫩", "嫪", "嫫", "嫬", "嫭", "嫮", "嫯", "嫰", "嫱", "嫲", "嫳", "嫴", "嫵", "嫶", "嫷", "嫸",
     "嫹", "嫺", "嫻", "嫼", "嫽", "嫾", "嫿", "宀", "宁", "宂", "它", "宄", "宅", "宆", "宇", "守",
     "安", "宊", "宋", "完", "宍", "宎", "宏", "宐", "宑", "宒", "宓", "宔", "宕", "宖", "宗", "官",
     "宙", "定", "宛", "宜", "宝", "实", "実", "宠", "审", "客", "宣", "室", "宥", "宦", "宧", "宨",
     "宩", "宪", "宫", "宬", "宭", "宮", "宯", "宰", "宱", "宲", "害", "宴", "宵", "家", "宷", "宸",
     "容", "宺", "宻", "宼", "宽", "宾", "宿", "寀", "寁", "寂", "寃", "寄", "寅", "密", "寇", "寈",
     "寉", "寊", "寋", "富", "寍", "寎", "寏", "寐", "寑", "寒", "寓", "寔", "寕", "寖", "寗", "寘",
     "寙", "寚", "寛", "寜", "寝", "寞", "察", "寠", "寡", "寢", "寣", "寤", "寥", "實", "寧", "寨",
     "審", "寪", "寫", "寬", "寭", "寮", "寯", "寰", "寱", "寲", "寳", "寴", "寵", "寶", "寷", "寸",
     "对", "寺", "寻", "导", "寽", "対", "寿", "岀", "岁", "岂", "岃", "岄", "岅", "岆", "岇", "岈",
     "岉", "岊", "岋", "岌", "岍", "岎", "岏", "岐", "岑", "岒", "岓", "岔", "岕", "岖", "岗", "岘",
     "岙", "岚", "岛", "岜", "岝", "岞", "岟", "岠", "岡", "岢", "岣", "岤", "岥", "岦", "岧", "岨",
     "岩", "岪", "岫", "岬", "岭", "岮", "岯", "岰", "岱", "岲", "岳", "岴", "岵", "岶", "岷", "岸",
     "岹", "岺", "岻", "岼", "岽", "岾", "岿", "峀", "峁", "峂", "峃", "峄", "峅", "峆", "峇", "峈",
     "峉", "峊", "峋", "峌", "峍", "峎", "峏", "峐", "峑", "峒", "峓", "峔", "峕", "峖", "峗", "峘",
     "峙", "峚", "峛", "峜", "峝", "峞", "峟", "峠", "峡", "峢", "峣", "峤", "峥", "峦", "峧", "峨",
     "峩", "峪", "峫", "峬", "峭", "峮", "峯", "峰", "峱", "峲", "峳", "峴", "峵", "島", "峷", "峸",
     "峹", "峺", "峻", "峼", "峽", "峾", "峿", "嶀", "嶁", "嶂", "嶃", "嶄", "嶅", "嶆", "嶇", "嶈",
     "嶉", "嶊", "嶋", "嶌", "嶍", "嶎", "嶏", "嶐", "嶑", "嶒", "嶓", "嶔", "嶕", "嶖", "嶗", "嶘",
     "嶙", "嶚", "嶛", "嶜", "嶝", "嶞", "嶟", "嶠", "嶡", "嶢", "嶣", "嶤", "嶥", "嶦", "嶧", "嶨",
     "嶩", "嶪", "嶫", "嶬", "嶭", "嶮", "嶯", "嶰", "嶱", "嶲", "嶳", "嶴", "嶵", "嶶", "嶷", "嶸",
     "嶹", "嶺", "嶻", "嶼", "嶽", "嶾", "嶿", "巀", "巁", "巂", "巃", "巄", "巅", "巆", "巇", "巈",
     "巉", "巊", "巋", "巌", "巍", "巎", "巏", "巐", "巑", "巒", "巓", "巔", "巕", "巖", "巗", "巘",
     "巙", "巚", "巛", "巜", "川", "州", "巟", "巠", "巡", "巢", "巣", "巤", "工", "左", "巧", "巨",
     "巩", "巪", "巫", "巬", "巭", "差", "巯", "巰", "己", "已", "巳", "巴", "巵", "巶", "巷", "巸",
     "巹", "巺", "巻", "巼", "巽", "巾", "巿", "庀", "庁", "庂", "広", "庄", "庅", "庆", "庇", "庈",
     "庉", "床", "庋", "庌", "庍", "庎", "序", "庐", "庑", "庒", "库", "应", "底", "庖", "店", "庘",
     "庙", "庚", "庛", "府", "庝", "庞", "废", "庠", "庡", "庢", "庣", "庤", "庥", "度", "座", "庨",
     "庩", "庪", "庫", "庬", "庭", "庮", "庯", "庰", "庱", "庲", "庳", "庴", "庵", "庶", "康", "庸",
     "庹", "庺", "庻", "庼", "庽", "庾", "庿", "廀", "廁", "廂", "廃", "廄", "廅", "廆", "廇", "廈",
     "廉", "廊", "廋", "廌", "廍", "廎", "廏", "廐", "廑", "廒", "廓", "廔", "廕", "廖", "廗", "廘",
     "廙", "廚", "廛", "廜", "廝", "廞", "廟", "廠", "廡", "廢", "廣", "廤", "廥", "廦", "廧", "廨",
     "廩", "廪", "廫", "廬", "廭", "廮", "廯", "廰", "廱", "廲", "廳", "廴", "廵", "延", "廷", "廸",
     "廹", "建", "廻", "廼", "廽", "廾", "廿", "往", "征", "徂", "徃", "径", "待", "徆", "徇", "很",
     "徉", "徊", "律", "後", "徍", "徎", "徏", "徐", "徑", "徒", "従", "徔", "徕", "徖", "得", "徘",
     "徙", "徚", "徛", "徜", "徝", "從", "徟", "徠", "御", "徢", "徣", "徤", "徥", "徦", "徧", "徨",
     "復", "循", "徫", "徬", "徭", "微", "徯", "徰", "徱", "徲", "徳", "徴", "徵", "徶", "德", "徸",
     "徹", "徺", "徻", "徼", "徽", "徾", "徿", "忀", "忁", "忂", "心", "忄", "必", "忆", "忇", "忈",
     "忉", "忊", "忋", "忌", "忍", "忎", "忏", "忐", "忑", "忒", "忓", "忔", "忕", "忖", "志", "忘",
     "忙", "忚", "忛", "応", "忝", "忞", "忟", "忠", "忡", "忢", "忣", "忤", "忥", "忦", "忧", "忨",
     "忩", "忪", "快", "忬", "忭", "忮", "忯", "忰", "忱", "忲", "忳", "忴", "念", "忶", "忷", "忸",
     "忹", "忺", "忻", "忼", "忽", "忾", "忿", "悀", "悁", "悂", "悃", "悄", "悅", "悆", "悇", "悈",
     "悉", "悊", "悋", "悌", "悍", "悎", "悏", "悐", "悑", "悒", "悓", "悔", "悕", "悖", "悗", "悘",
     "悙", "悚", "悛", "悜", "悝", "悞", "悟", "悠", "悡", "悢", "患", "悤", "悥", "悦", "悧", "您",
     "悩", "悪", "悫", "悬", "悭", "悮", "悯", "悰", "悱", "悲", "悳", "悴", "悵", "悶", "悷", "悸",
     "悹", "悺", "悻", "悼", "悽", "悾", "悿", "惀", "惁", "惂", "惃", "惄", "情", "惆", "惇", "惈",
     "惉", "惊", "惋", "惌", "惍", "惎", "惏", "惐", "惑", "惒", "惓", "惔", "惕", "惖", "惗", "惘",
     "惙", "惚", "惛", "惜", "惝", "惞", "惟", "惠", "惡", "惢", "惣", "惤", "惥", "惦", "惧", "惨",
     "惩", "惪", "惫", "惬", "惭", "惮", "惯", "惰", "惱", "惲", "想", "惴", "惵", "惶", "惷", "惸",
     "惹", "惺", "惻", "惼", "惽", "惾", "惿", "憀", "憁", "憂", "憃", "憄", "憅", "憆", "憇", "憈",
     "憉", "憊", "憋", "憌", "憍", "憎", "憏", "憐", "憑", "憒", "憓", "憔", "憕", "憖", "憗", "憘",
     "憙", "憚", "憛", "憜", "憝", "憞", "憟", "憠", "憡", "憢", "憣", "憤", "憥", "憦", "憧", "憨",
     "憩", "憪", "憫", "憬", "憭", "憮", "憯", "憰", "憱", "憲", "憳", "憴", "憵", "憶", "憷", "憸",
     "憹", "憺", "憻", "憼", "憽", "憾", "憿", "懀", "懁", "懂", "懃", "懄", "懅", "懆", "懇", "懈",
     "應", "懊", "懋", "懌", "懍", "懎", "懏", "懐", "懑", "懒", "懓", "懔", "懕", "懖", "懗", "懘",
     "懙", "懚", "懛", "懜", "懝", "懞", "懟", "懠", "懡", "懢", "懣", "懤", "懥", "懦", "懧", "懨",
     "懩", "懪", "懫", "懬", "懭", "懮", "懯", "懰", "懱", "懲", "懳", "懴", "懵", "懶", "懷", "懸",
     "懹", "懺", "懻", "懼", "懽", "懾", "懿", "技", "抁", "抂", "抃", "抄", "抅", "抆", "抇", "抈",
     "抉", "把", "抋", "抌", "抍", "抎", "抏", "抐", "抑", "抒", "抓", "抔", "投", "抖", "抗", "折",
     "抙", "抚", "抛", "抜", "抝", "択", "抟", "抠", "抡", "抢", "抣", "护", "报", "抦", "抧", "抨",
     "抩", "抪", "披", "抬", "抭", "抮", "抯", "抰", "抱", "抲", "抳", "抴", "抵", "抶", "抷", "抸",
     "抹", "抺", "抻", "押", "抽", "抾", "抿", "拀", "拁", "拂", "拃", "拄", "担", "拆", "拇", "拈",
     "拉", "拊", "拋", "拌", "拍", "拎", "拏", "拐", "拑", "拒", "拓", "拔", "拕", "拖", "拗", "拘",
     "拙", "拚", "招", "拜", "拝", "拞", "拟", "拠", "拡", "拢", "拣", "拤", "拥", "拦", "拧", "拨",
     "择", "拪", "拫", "括", "拭", "拮", "拯", "拰", "拱", "拲", "拳", "拴", "拵", "拶", "拷", "拸",
     "拹", "拺", "拻", "拼", "拽", "拾", "拿", "掀", "掁", "掂", "掃", "掄", "掅", "掆", "掇", "授",
     "掉", "掊", "掋", "掌", "掍", "掎", "掏", "掐", "掑", "排", "掓", "掔", "掕", "掖", "掗", "掘",
     "掙", "掚", "掛", "掜", "掝", "掞", "掟", "掠", "採", "探", "掣", "掤", "接", "掦", "控", "推",
     "掩", "措", "掫", "掬", "掭", "掮", "掯", "掰", "掱", "掲", "掳", "掴", "掵", "掶", "掷", "掸",
     "掹", "掺", "掻", "掼", "掽", "掾", "掿", "揀", "揁", "揂", "揃", "揄", "揅", "揆", "揇", "揈",
     "揉", "揊", "揋", "揌", "揍", "揎", "描", "提", "揑", "插", "揓", "揔", "揕", "揖", "揗", "揘",
     "揙", "揚", "換", "揜", "揝", "揞", "揟", "揠", "握", "揢", "揣", "揤", "揥", "揦", "揧", "揨",
     "揩", "揪", "揫", "揬", "揭", "揮", "揯", "揰", "揱", "揲", "揳", "援", "揵", "揶", "揷", "揸",
     "揹", "揺", "揻", "揼", "揽", "揾", "揿", "撀", "撁", "撂", "撃", "撄", "撅", "撆", "撇", "撈",
     "撉", "撊", "撋", "撌", "撍", "撎", "撏", "撐", "撑", "撒", "撓", "撔", "撕", "撖", "撗", "撘",
     "撙", "撚", "撛", "撜", "撝", "撞", "撟", "撠", "撡", "撢", "撣", "撤", "撥", "撦", "撧", "撨",
     "撩", "撪", "撫", "撬", "播", "撮", "撯", "撰", "撱", "撲", "撳", "撴", "撵", "撶", "撷", "撸",
     "撹", "撺", "撻", "撼", "撽", "撾", "撿", "擀", "擁", "擂", "擃", "擄", "擅", "擆", "擇", "擈",
     "擉", "擊", "擋", "擌", "操", "擎", "擏", "擐", "擑", "擒", "擓", "擔", "擕", "擖", "擗", "擘",
     "擙", "據", "擛", "擜", "擝", "擞", "擟", "擠", "擡", "擢", "擣", "擤", "擥", "擦", "擧", "擨",
     "擩", "擪", "擫", "擬", "擭", "擮", "擯", "擰", "擱", "擲", "擳", "擴", "擵", "擶", "擷", "擸",
     "擹", "擺", "擻", "擼", "擽", "擾", "擿", "斀", "斁", "斂", "斃", "斄", "斅", "斆", "文", "斈",
     "斉", "斊", "斋", "斌", "斍", "斎", "斏", "斐", "斑", "斒", "斓", "斔", "斕", "斖", "斗", "斘",
     "料", "斚", "斛", "斜", "斝", "斞", "斟", "斠", "斡", "斢", "斣", "斤", "斥", "斦", "斧", "斨",
     "斩", "斪", "斫", "斬", "断", "斮", "斯", "新", "斱", "斲", "斳", "斴", "斵", "斶", "斷", "斸",
     "方", "斺", "斻", "於", "施", "斾", "斿", "旀", "旁", "旂", "旃", "旄", "旅", "旆", "旇", "旈",
     "旉", "旊", "旋", "旌", "旍", "旎", "族", "旐", "旑", "旒", "旓", "旔", "旕", "旖", "旗", "旘",
     "旙", "旚", "旛", "旜", "旝", "旞", "旟", "无", "旡", "既", "旣", "旤", "日", "旦", "旧", "旨",
     "早", "旪", "旫", "旬", "旭", "旮", "旯", "旰", "旱", "旲", "旳", "旴", "旵", "时", "旷", "旸",
     "旹", "旺", "旻", "旼", "旽", "旾", "旿", "暀", "暁", "暂", "暃", "暄", "暅", "暆", "暇", "暈",
     "暉", "暊", "暋", "暌", "暍", "暎", "暏", "暐", "暑", "暒", "暓", "暔", "暕", "暖", "暗", "暘",
     "暙", "暚", "暛", "暜", "暝", "暞", "暟", "暠", "暡", "暢", "暣", "暤", "暥", "暦", "暧", "暨",
     "暩", "暪", "暫", "暬", "暭", "暮", "暯", "暰", "暱", "暲", "暳", "暴", "暵", "暶", "暷", "暸",
     "暹", "暺", "暻", "暼", "暽", "暾", "暿", "曀", "曁", "曂", "曃", "曄", "曅", "曆", "曇", "曈",
     "曉", "曊", "曋", "曌", "曍", "曎", "曏", "曐", "曑", "曒", "曓", "曔", "曕", "曖", "曗", "曘",
     "曙", "曚", "曛", "曜", "曝", "曞", "曟", "曠", "曡", "曢", "曣", "曤", "曥", "曦", "曧", "曨",
     "曩", "曪", "曫", "曬", "曭", "曮", "曯", "曰", "曱", "曲", "曳", "更", "曵", "曶", "曷", "書",
     "曹", "曺", "曻", "曼", "曽", "曾", "替", "枀", "极", "枂", "枃", "构", "枅", "枆", "枇", "枈",
     "枉", "枊", "枋", "枌", "枍", "枎", "枏", "析", "枑", "枒", "枓", "枔", "枕", "枖", "林", "枘",
     "枙", "枚", "枛", "果", "枝", "枞", "枟", "枠", "枡", "枢", "枣", "枤", "枥", "枦", "枧", "枨",
     "枩", "枪", "枫", "枬", "枭", "枮", "枯", "枰", "枱", "枲", "枳", "枴", "枵", "架", "枷", "枸",
     "枹", "枺", "枻", "枼", "枽", "枾", "枿", "柀", "柁", "柂", "柃", "柄", "柅", "柆", "柇", "柈",
     "柉", "柊", "柋", "柌", "柍", "柎", "柏", "某", "柑", "柒", "染", "柔", "柕", "柖", "柗", "柘",
     "柙", "柚", "柛", "柜", "柝", "柞", "柟", "柠", "柡", "柢", "柣", "柤", "查", "柦", "柧", "柨",
     "柩", "柪", "柫", "柬", "柭", "柮", "柯", "柰", "柱", "柲", "柳", "柴", "柵", "柶", "柷", "柸",
     "柹", "柺", "査", "柼", "柽", "柾", "柿", "梀", "梁", "梂", "梃", "梄", "梅", "梆", "梇", "梈",
     "梉", "梊", "梋", "梌", "梍", "梎", "梏", "梐", "梑", "梒", "梓", "梔", "梕", "梖", "梗", "梘",
     "梙", "梚", "梛", "梜", "條", "梞", "梟", "梠", "梡", "梢", "梣", "梤", "梥", "梦", "梧", "梨",
     "梩", "梪", "梫", "梬", "梭", "梮", "梯", "械", "梱", "梲", "梳", "梴", "梵", "梶", "梷", "梸",
     "梹", "梺", "梻", "梼", "梽", "梾", "梿", "检", "棁", "棂", "棃", "棄", "棅", "棆", "棇", "棈",
     "棉", "棊", "棋", "棌", "棍", "棎", "棏", "棐", "棑", "棒", "棓", "棔", "棕", "棖", "棗", "棘",
     "棙", "棚", "棛", "棜", "棝", "棞", "棟", "棠", "棡", "棢", "棣", "棤", "棥", "棦", "棧", "棨",
     "棩", "棪", "棫", "棬", "棭", "森", "棯", "棰", "棱", "棲", "棳", "棴", "棵", "棶", "棷", "棸",
     "棹", "棺", "棻", "棼", "棽", "棾", "棿", "榀", "榁", "概", "榃", "榄", "榅", "榆", "榇", "榈",
     "榉", "榊", "榋", "榌", "榍", "榎", "榏", "榐", "榑", "榒", "榓", "榔", "榕", "榖", "榗", "榘",
     "榙", "榚", "榛", "榜", "榝", "榞", "榟", "榠", "榡", "榢", "榣", "榤", "榥", "榦", "榧", "榨",
     "榩", "榪", "榫", "榬", "榭", "榮", "榯", "榰", "榱", "榲", "榳", "榴", "榵", "榶", "榷", "榸",
     "榹", "榺", "榻", "榼", "榽", "榾", "榿", "槀", "槁", "槂", "槃", "槄", "槅", "槆", "槇", "槈",
     "槉", "槊", "構", "槌", "槍", "槎", "槏", "槐", "槑", "槒", "槓", "槔", "槕", "槖", "槗", "様",
     "槙", "槚", "槛", "槜", "槝", "槞", "槟", "槠", "槡", "槢", "槣", "槤", "槥", "槦", "槧", "槨",
     "槩", "槪", "槫", "槬", "槭", "槮", "槯", "槰", "槱", "槲", "槳", "槴", "槵", "槶", "槷", "槸",
     "槹", "槺", "槻", "槼", "槽", "槾", "槿", "檀", "檁", "檂", "檃", "檄", "檅", "檆", "檇", "檈",
     "檉", "檊", "檋", "檌", "檍", "檎", "檏", "檐", "檑", "檒", "檓", "檔", "檕", "檖", "檗", "檘",
     "檙", "檚", "檛", "檜", "檝", "檞", "檟", "檠", "檡", "檢", "檣", "檤", "檥", "檦", "檧", "檨",
     "檩", "檪", "檫", "檬", "檭", "檮", "檯", "檰", "檱", "檲", "檳", "檴", "檵", "檶", "檷", "檸",
     "檹", "檺", "檻", "檼", "檽", "檾", "檿", "櫀", "櫁", "櫂", "櫃", "櫄", "櫅", "櫆", "櫇", "櫈",
     "櫉", "櫊", "櫋", "櫌", "櫍", "櫎", "櫏", "櫐", "櫑", "櫒", "櫓", "櫔", "櫕", "櫖", "櫗", "櫘",
     "櫙", "櫚", "櫛", "櫜", "櫝", "櫞", "櫟", "櫠", "櫡", "櫢", "櫣", "櫤", "櫥", "櫦", "櫧", "櫨",
     "櫩", "櫪", "櫫", "櫬", "櫭", "櫮", "櫯", "櫰", "櫱", "櫲", "櫳", "櫴", "櫵", "櫶", "櫷", "櫸",
     "櫹", "櫺", "櫻", "櫼", "櫽", "櫾", "櫿", "殀", "殁", "殂", "殃", "殄", "殅", "殆", "殇", "殈",
     "殉", "殊", "残", "殌", "殍", "殎", "殏", "殐", "殑", "殒", "殓", "殔", "殕", "殖", "殗", "殘",
     "殙", "殚", "殛", "殜", "殝", "殞", "殟", "殠", "殡", "殢", "殣", "殤", "殥", "殦", "殧", "殨",
     "殩", "殪", "殫", "殬", "殭", "殮", "殯", "殰", "殱", "殲", "殳", "殴", "段", "殶", "殷", "殸",
     "殹", "殺", "殻", "殼", "殽", "殾", "殿", "毀", "毁", "毂", "毃", "毄", "毅", "毆", "毇", "毈",
     "毉", "毊", "毋", "毌", "母", "毎", "每", "毐", "毑", "毒", "毓", "比", "毕", "毖", "毗", "毘",
     "毙", "毚", "毛", "毜", "毝", "毞", "毟", "毠", "毡", "毢", "毣", "毤", "毥", "毦", "毧", "毨",
     "毩", "毪", "毫", "毬", "毭", "毮", "毯", "毰", "毱", "毲", "毳", "毴", "毵", "毶", "毷", "毸",
     "毹", "毺", "毻", "毼", "毽", "毾", "毿", "沀", "沁", "沂", "沃", "沄", "沅", "沆", "沇", "沈",
     "沉", "沊", "沋", "沌", "沍", "沎", "沏", "沐", "沑", "沒", "沓", "沔", "沕", "沖", "沗", "沘",
     "沙", "沚", "沛", "沜", "沝", "沞", "沟", "沠", "没", "沢", "沣", "沤", "沥", "沦", "沧", "沨",
     "沩", "沪", "沫", "沬", "沭", "沮", "沯", "沰", "沱", "沲", "河", "沴", "沵", "沶", "沷", "沸",
     "油", "沺", "治", "沼", "沽", "沾", "沿", "泀", "況", "泂", "泃", "泄", "泅", "泆", "泇", "泈",
     "泉", "泊", "泋", "泌", "泍", "泎", "泏", "泐", "泑", "泒", "泓", "泔", "法", "泖", "泗", "泘",
     "泙", "泚", "泛", "泜", "泝", "泞", "泟", "泠", "泡", "波", "泣", "泤", "泥", "泦", "泧", "注",
     "泩", "泪", "泫", "泬", "泭", "泮", "泯", "泰", "泱", "泲", "泳", "泴", "泵", "泶", "泷", "泸",
     "泹", "泺", "泻", "泼", "泽", "泾", "泿", "涀", "涁", "涂", "涃", "涄", "涅", "涆", "涇", "消",
     "涉", "涊", "涋", "涌", "涍", "涎", "涏", "涐", "涑", "涒", "涓", "涔", "涕", "涖", "涗", "涘",
     "涙", "涚", "涛", "涜", "涝", "涞", "涟", "涠", "涡", "涢", "涣", "涤", "涥", "润", "涧", "涨",
     "涩", "涪", "涫", "涬", "涭", "涮", "涯", "涰", "涱", "液", "涳", "涴", "涵", "涶", "涷", "涸",
     "涹", "涺", "涻", "涼", "涽", "涾", "涿", "淀", "淁", "淂", "淃", "淄", "淅", "淆", "淇", "淈",
     "淉", "淊", "淋", "淌", "淍", "淎", "淏", "淐", "淑", "淒", "淓", "淔", "淕", "淖", "淗", "淘",
     "淙", "淚", "淛", "淜", "淝", "淞", "淟", "淠", "淡", "淢", "淣", "淤", "淥", "淦", "淧", "淨",
     "淩", "淪", "淫", "淬", "淭", "淮", "淯", "淰", "深", "淲", "淳", "淴", "淵", "淶", "混", "淸",
     "淹", "淺", "添", "淼", "淽", "淾", "淿", "満", "溁", "溂", "溃", "溄", "溅", "溆", "溇", "溈",
     "溉", "溊", "溋", "溌", "溍", "溎", "溏", "源", "溑", "溒", "溓", "溔", "溕", "準", "溗", "溘",
     "溙", "溚", "溛", "溜", "溝", "溞", "溟", "溠", "溡", "溢", "溣", "溤", "溥", "溦", "溧", "溨",
     "溩", "溪", "溫", "溬", "溭", "溮", "溯", "溰", "溱", "溲", "溳", "溴", "溵", "溶", "溷", "溸",
     "溹", "溺", "溻", "溼", "溽", "溾", "溿", "滀", "滁", "滂", "滃", "滄", "滅", "滆", "滇", "滈",
     "滉", "滊", "滋", "滌", "滍", "滎", "滏", "滐", "滑", "滒", "滓", "滔", "滕", "滖", "滗", "滘",
     "滙", "滚", "滛", "滜", "滝", "滞", "滟", "滠", "满", "滢", "滣", "滤", "滥", "滦", "滧", "滨",
     "滩", "滪", "滫", "滬", "滭", "滮", "滯", "滰", "滱", "滲", "滳", "滴", "滵", "滶", "滷", "滸",
     "滹", "滺", "滻", "滼", "滽", "滾", "滿", "澀", "澁", "澂", "澃", "澄", "澅", "澆", "澇", "澈",
     "澉", "澊", "澋", "澌", "澍", "澎", "澏", "澐", "澑", "澒", "澓", "澔", "澕", "澖", "澗", "澘",
     "澙", "澚", "澛", "澜", "澝", "澞", "澟", "澠", "澡", "澢", "澣", "澤", "澥", "澦", "澧", "澨",
     "澩", "澪", "澫", "澬", "澭", "澮", "澯", "澰", "澱", "澲", "澳", "澴", "澵", "澶", "澷", "澸",
     "澹", "澺", "澻", "澼", "澽", "澾", "澿", "激", "濁", "濂", "濃", "濄", "濅", "濆", "濇", "濈",
     "濉", "濊", "濋", "濌", "濍", "濎", "濏", "濐", "濑", "濒", "濓", "濔", "濕", "濖", "濗", "濘",
     "濙", "濚", "濛", "濜", "濝", "濞", "濟", "濠", "濡", "濢", "濣", "濤", "濥", "濦", "濧", "濨",
     "濩", "濪", "濫", "濬", "濭", "濮", "濯", "濰", "濱", "濲", "濳", "濴", "濵", "濶", "濷", "濸",
     "濹", "濺", "濻", "濼", "濽", "濾", "濿", "炀", "炁", "炂", "炃", "炄", "炅", "炆", "炇", "炈",
     "炉", "炊", "炋", "炌", "炍", "炎", "炏", "炐", "炑", "炒", "炓", "炔", "炕", "炖", "炗", "炘",
     "炙", "炚", "炛", "炜", "炝", "炞", "炟", "炠", "炡", "炢", "炣", "炤", "炥", "炦", "炧", "炨",
     "炩", "炪", "炫", "炬", "炭", "炮", "炯", "炰", "炱", "炲", "炳", "炴", "炵", "炶", "炷", "炸",
     "点", "為", "炻", "炼", "炽", "炾", "炿", "烀", "烁", "烂", "烃", "烄", "烅", "烆", "烇", "烈",
     "烉", "烊", "烋", "烌", "烍", "烎", "烏", "烐", "烑", "烒", "烓", "烔", "烕", "烖", "烗", "烘",
     "烙", "烚", "烛", "烜", "烝", "烞", "烟", "烠", "烡", "烢", "烣", "烤", "烥", "烦", "烧", "烨",
     "烩", "烪", "烫", "烬", "热", "烮", "烯", "烰", "烱", "烲", "烳", "烴", "烵", "烶", "烷", "烸",
     "烹", "烺", "烻", "烼", "烽", "烾", "烿", "熀", "熁", "熂", "熃", "熄", "熅", "熆", "熇", "熈",
     "熉", "熊", "熋", "熌", "熍", "熎", "熏", "熐", "熑", "熒", "熓", "熔", "熕", "熖", "熗", "熘",
     "熙", "熚", "熛", "熜", "熝", "熞", "熟", "熠", "熡", "熢", "熣", "熤", "熥", "熦", "熧", "熨",
     "熩", "熪", "熫", "熬", "熭", "熮", "熯", "熰", "熱", "熲", "熳", "熴", "熵", "熶", "熷", "熸",
     "熹", "熺", "熻", "熼", "熽", "熾", "熿", "燀", "燁", "燂", "燃", "燄", "燅", "燆", "燇", "燈",
     "燉", "燊", "燋", "燌", "燍", "燎", "燏", "燐", "燑", "燒", "燓", "燔", "燕", "燖", "燗", "燘",
     "燙", "燚", "燛", "燜", "燝", "燞", "營", "燠", "燡", "燢", "燣", "燤", "燥", "燦", "燧", "燨",
     "燩", "燪", "燫", "燬", "燭", "燮", "燯", "燰", "燱", "燲", "燳", "燴", "燵", "燶", "燷", "燸",
     "燹", "燺", "燻", "燼", "燽", "燾", "燿", "犀", "犁", "犂", "犃", "犄", "犅", "犆", "犇", "犈",
     "犉", "犊", "犋", "犌", "犍", "犎", "犏", "犐", "犑", "犒", "犓", "犔", "犕", "犖", "犗", "犘",
     "犙", "犚", "犛", "犜", "犝", "犞", "犟", "犠", "犡", "犢", "犣", "犤", "犥", "犦", "犧", "犨",
     "犩", "犪", "犫", "犬", "犭", "犮", "犯", "犰", "犱", "犲", "犳", "犴", "犵", "状", "犷", "犸",
     "犹", "犺", "犻", "犼", "犽", "犾", "犿", "狀", "狁", "狂", "狃", "狄", "狅", "狆", "狇", "狈",
     "狉", "狊", "狋", "狌", "狍", "狎", "狏", "狐", "狑", "狒", "狓", "狔", "狕", "狖", "狗", "狘",
     "狙", "狚", "狛", "狜", "狝", "狞", "狟", "狠", "狡", "狢", "狣", "狤", "狥", "狦", "狧", "狨",
     "狩", "狪", "狫", "独", "狭", "狮", "狯", "狰", "狱", "狲", "狳", "狴", "狵", "狶", "狷", "狸",
     "狹", "狺", "狻", "狼", "狽", "狾", "狿", "玀", "玁", "玂", "玃", "玄", "玅", "玆", "率", "玈",
     "玉", "玊", "王", "玌", "玍", "玎", "玏", "玐", "玑", "玒", "玓", "玔", "玕", "玖", "玗", "玘",
     "玙", "玚", "玛", "玜", "玝", "玞", "玟", "玠", "玡", "玢", "玣", "玤", "玥", "玦", "玧", "玨",
     "玩", "玪", "玫", "玬", "玭", "玮", "环", "现", "玱", "玲", "玳", "玴", "玵", "玶", "玷", "玸",
     "玹", "玺", "玻", "玼", "玽", "玾", "玿", "珀", "珁", "珂", "珃", "珄", "珅", "珆", "珇", "珈",
     "珉", "珊", "珋", "珌", "珍", "珎", "珏", "珐", "珑", "珒", "珓", "珔", "珕", "珖", "珗", "珘",
     "珙", "珚", "珛", "珜", "珝", "珞", "珟", "珠", "珡", "珢", "珣", "珤", "珥", "珦", "珧", "珨",
     "珩", "珪", "珫", "珬", "班", "珮", "珯", "珰", "珱", "珲", "珳", "珴", "珵", "珶", "珷", "珸",
     "珹", "珺", "珻", "珼", "珽", "現", "珿", "璀", "璁", "璂", "璃", "璄", "璅", "璆", "璇", "璈",
     "璉", "璊", "璋", "璌", "璍", "璎", "璏", "璐", "璑", "璒", "璓", "璔", "璕", "璖", "璗", "璘",
     "璙", "璚", "璛", "璜", "璝", "璞", "璟", "璠", "璡", "璢", "璣", "璤", "璥", "璦", "璧", "璨",
     "璩", "璪", "璫", "璬", "璭", "璮", "璯", "環", "璱", "璲", "璳", "璴", "璵", "璶", "璷", "璸",
     "璹", "璺", "璻", "璼", "璽", "璾", "璿", "瓀", "瓁", "瓂", "瓃", "瓄", "瓅", "瓆", "瓇", "瓈",
     "瓉", "瓊", "瓋", "瓌", "瓍", "瓎", "瓏", "瓐", "瓑", "瓒", "瓓", "瓔", "瓕", "瓖", "瓗", "瓘",
     "瓙", "瓚", "瓛", "瓜", "瓝", "瓞", "瓟", "瓠", "瓡", "瓢", "瓣", "瓤", "瓥", "瓦", "瓧", "瓨",
     "瓩", "瓪", "瓫", "瓬", "瓭", "瓮", "瓯", "瓰", "瓱", "瓲", "瓳", "瓴", "瓵", "瓶", "瓷", "瓸",
     "瓹", "瓺", "瓻", "瓼", "瓽", "瓾", "瓿", "疀", "疁", "疂", "疃", "疄", "疅", "疆", "疇", "疈",
     "疉", "疊", "疋", "疌", "疍", "疎", "疏", "疐", "疑", "疒", "疓", "疔", "疕", "疖", "疗", "疘",
     "疙", "疚", "疛", "疜", "疝", "疞", "疟", "疠", "疡", "疢", "疣", "疤", "疥", "疦", "疧", "疨",
     "疩", "疪", "疫", "疬", "疭", "疮", "疯", "疰", "疱", "疲", "疳", "疴", "疵", "疶", "疷", "疸",
     "疹", "疺", "疻", "疼", "疽", "疾", "疿", "痀", "痁", "痂", "痃", "痄", "病", "痆", "症", "痈",
     "痉", "痊", "痋", "痌", "痍", "痎", "痏", "痐", "痑", "痒", "痓", "痔", "痕", "痖", "痗", "痘",
     "痙", "痚", "痛", "痜", "痝", "痞", "痟", "痠", "痡", "痢", "痣", "痤", "痥", "痦", "痧", "痨",
     "痩", "痪", "痫", "痬", "痭", "痮", "痯", "痰", "痱", "痲", "痳", "痴", "痵", "痶", "痷", "痸",
     "痹", "痺", "痻", "痼", "痽", "痾", "痿", "皀", "皁", "皂", "皃", "的", "皅", "皆", "皇", "皈",
     "皉", "皊", "皋", "皌", "皍", "皎", "皏", "皐", "皑", "皒", "皓", "皔", "皕", "皖", "皗", "皘",
     "皙", "皚", "皛", "皜", "皝", "皞", "皟", "皠", "皡", "皢", "皣", "皤", "皥", "皦", "皧", "皨",
     "皩", "皪", "皫", "皬", "皭", "皮", "皯", "皰", "皱", "皲", "皳", "皴", "皵", "皶", "皷", "皸",
     "皹", "皺", "皻", "皼", "皽", "皾", "皿", "盀", "盁", "盂", "盃", "盄", "盅", "盆", "盇", "盈",
     "盉", "益", "盋", "盌", "盍", "盎", "盏", "盐", "监", "盒", "盓", "盔", "盕", "盖", "盗", "盘",
     "盙", "盚", "盛", "盜", "盝", "盞", "盟", "盠", "盡", "盢", "監", "盤", "盥", "盦", "盧", "盨",
     "盩", "盪", "盫", "盬", "盭", "目", "盯", "盰", "盱", "盲", "盳", "直", "盵", "盶", "盷", "相",
     "盹", "盺", "盻", "盼", "盽", "盾", "盿", "瞀", "瞁", "瞂", "瞃", "瞄", "瞅", "瞆", "瞇", "瞈",
     "瞉", "瞊", "瞋", "瞌", "瞍", "瞎", "瞏", "瞐", "瞑", "瞒", "瞓", "瞔", "瞕", "瞖", "瞗", "瞘",
     "瞙", "瞚", "瞛", "瞜", "瞝", "瞞", "瞟", "瞠", "瞡", "瞢", "瞣", "瞤", "瞥", "瞦", "瞧", "瞨",
     "瞩", "瞪", "瞫", "瞬", "瞭", "瞮", "瞯", "瞰", "瞱", "瞲", "瞳", "瞴", "瞵", "瞶", "瞷", "瞸",
     "瞹", "瞺", "瞻", "瞼", "瞽", "瞾", "瞿", "矀", "矁", "矂", "矃", "矄", "矅", "矆", "矇", "矈",
     "矉", "矊", "矋", "矌", "矍", "矎", "矏", "矐", "矑", "矒", "矓", "矔", "矕", "矖", "矗", "矘",
     "矙", "矚", "矛", "矜", "矝", "矞", "矟", "矠", "矡", "矢", "矣", "矤", "知", "矦", "矧", "矨",
     "矩", "矪", "矫", "矬", "短", "矮", "矯", "矰", "矱", "矲", "石", "矴", "矵", "矶", "矷", "矸",
     "矹", "矺", "矻", "矼", "矽", "矾", "矿", "碀", "碁", "碂", "碃", "碄", "碅", "碆", "碇", "碈",
     "碉", "碊", "碋", "碌", "碍", "碎", "碏", "碐", "碑", "碒", "碓", "碔", "碕", "碖", "碗", "碘",
     "碙", "碚", "碛", "碜", "碝", "碞", "碟", "碠", "碡", "碢", "碣", "碤", "碥", "碦", "碧", "碨",
     "碩", "碪", "碫", "碬", "碭", "碮", "碯", "碰", "碱", "碲", "碳", "碴", "碵", "碶", "碷", "碸",
     "碹", "確", "碻", "碼", "碽", "碾", "碿", "磀", "磁", "磂", "磃", "磄", "磅", "磆", "磇", "磈",
     "磉", "磊", "磋", "磌", "磍", "磎", "磏", "磐", "磑", "磒", "磓", "磔", "磕", "磖", "磗", "磘",
     "磙", "磚", "磛", "磜", "磝", "磞", "磟", "磠", "磡", "磢", "磣", "磤", "磥", "磦", "磧", "磨",
     "磩", "磪", "磫", "磬", "磭", "磮", "磯", "磰", "磱", "磲", "磳", "磴", "磵", "磶", "磷", "磸",
     "磹", "磺", "磻", "磼", "磽", "磾", "磿", "禀", "禁", "禂", "禃", "禄", "禅", "禆", "禇", "禈",
     "禉", "禊", "禋", "禌", "禍", "禎", "福", "禐", "禑", "禒", "禓", "禔", "禕", "禖", "禗", "禘",
     "禙", "禚", "禛", "禜", "禝", "禞", "禟", "禠", "禡", "禢", "禣", "禤", "禥", "禦", "禧", "禨",
     "禩", "禪", "禫", "禬", "禭", "禮", "禯", "禰", "禱", "禲", "禳", "禴", "禵", "禶", "禷", "禸",
     "禹", "禺", "离", "禼", "禽", "禾", "禿", "秀", "私", "秂", "秃", "秄", "秅", "秆", "秇", "秈",
     "秉", "秊", "秋", "秌", "种", "秎", "秏", "秐", "科", "秒", "秓", "秔", "秕", "秖", "秗", "秘",
     "秙", "秚", "秛", "秜", "秝", "秞", "租", "秠", "秡", "秢", "秣", "秤", "秥", "秦", "秧", "秨",
     "秩", "秪", "秫", "秬", "秭", "秮", "积", "称", "秱", "秲", "秳", "秴", "秵", "秶", "秷", "秸",
     "秹", "秺", "移", "秼", "秽", "秾", "秿", "窀", "突", "窂", "窃", "窄", "窅", "窆", "窇", "窈",
     "窉", "窊", "窋", "窌", "窍", "窎", "窏", "窐", "窑", "窒", "窓", "窔", "窕", "窖", "窗", "窘",
     "窙", "窚", "窛", "窜", "窝", "窞", "窟", "窠", "窡", "窢", "窣", "窤", "窥", "窦", "窧", "窨",
     "窩", "窪", "窫", "窬", "窭", "窮", "窯", "窰", "窱", "窲", "窳", "窴", "窵", "窶", "窷", "窸",
     "窹", "窺", "窻", "窼", "窽", "窾", "窿", "竀", "竁", "竂", "竃", "竄", "竅", "竆", "竇", "竈",
     "竉", "竊", "立", "竌", "竍", "竎", "竏", "竐", "竑", "竒", "竓", "竔", "竕", "竖", "竗", "竘",
     "站", "竚", "竛", "竜", "竝", "竞", "竟", "章", "竡", "竢", "竣", "竤", "童", "竦", "竧", "竨",
     "竩", "竪", "竫", "竬", "竭", "竮", "端", "竰", "竱", "竲", "竳", "竴", "竵", "競", "竷", "竸",
     "竹", "竺", "竻", "竼", "竽", "竾", "竿", "简", "箁", "箂", "箃", "箄", "箅", "箆", "箇", "箈",
     "箉", "箊", "箋", "箌", "箍", "箎", "箏", "箐", "箑", "箒", "箓", "箔", "箕", "箖", "算", "箘",
     "箙", "箚", "箛", "箜", "箝", "箞", "箟", "箠", "管", "箢", "箣", "箤", "箥", "箦", "箧", "箨",
     "箩", "箪", "箫", "箬", "箭", "箮", "箯", "箰", "箱", "箲", "箳", "箴", "箵", "箶", "箷", "箸",
     "箹", "箺", "箻", "箼", "箽", "箾", "箿", "節", "篁", "篂", "篃", "範", "篅", "篆", "篇", "篈",
     "築", "篊", "篋", "篌", "篍", "篎", "篏", "篐", "篑", "篒", "篓", "篔", "篕", "篖", "篗", "篘",
     "篙", "篚", "篛", "篜", "篝", "篞", "篟", "篠", "篡", "篢", "篣", "篤", "篥", "篦", "篧", "篨",
     "篩", "篪", "篫", "篬", "篭", "篮", "篯", "篰", "篱", "篲", "篳", "篴", "篵", "篶", "篷", "篸",
     "篹", "篺", "篻", "篼", "篽", "篾", "篿", "粀", "粁", "粂", "粃", "粄", "粅", "粆", "粇", "粈",
     "粉", "粊", "粋", "粌", "粍", "粎", "粏", "粐", "粑", "粒", "粓", "粔", "粕", "粖", "粗", "粘",
     "粙", "粚", "粛", "粜", "粝", "粞", "粟", "粠", "粡", "粢", "粣", "粤", "粥", "粦", "粧", "粨",
     "粩", "粪", "粫", "粬", "粭", "粮", "粯", "粰", "粱", "粲", "粳", "粴", "粵", "粶", "粷", "粸",
     "粹", "粺", "粻", "粼", "粽", "精", "粿", "糀", "糁", "糂", "糃", "糄", "糅", "糆", "糇", "糈",
     "糉", "糊", "糋", "糌", "糍", "糎", "糏", "糐", "糑", "糒", "糓", "糔", "糕", "糖", "糗", "糘",
     "糙", "糚", "糛", "糜", "糝", "糞", "糟", "糠", "糡", "糢", "糣", "糤", "糥", "糦", "糧", "糨",
     "糩", "糪", "糫", "糬", "糭", "糮", "糯", "糰", "糱", "糲", "糳", "糴", "糵", "糶", "糷", "糸",
     "糹", "糺", "系", "糼", "糽", "糾", "糿", "綀", "綁", "綂", "綃", "綄", "綅", "綆", "綇", "綈",
     "綉", "綊", "綋", "綌", "綍", "綎", "綏", "綐", "綑", "綒", "經", "綔", "綕", "綖", "綗", "綘",
     "継", "続", "綛", "綜", "綝", "綞", "綟", "綠", "綡", "綢", "綣", "綤", "綥", "綦", "綧", "綨",
     "綩", "綪", "綫", "綬", "維", "綮", "綯", "綰", "綱", "網", "綳", "綴", "綵", "綶", "綷", "綸",
     "綹", "綺", "綻", "綼", "綽", "綾", "綿", "緀", "緁", "緂", "緃", "緄", "緅", "緆", "緇", "緈",
     "緉", "緊", "緋", "緌", "緍", "緎", "総", "緐", "緑", "緒", "緓", "緔", "緕", "緖", "緗", "緘",
     "緙", "線", "緛", "緜", "緝", "緞", "緟", "締", "緡", "緢", "緣", "緤", "緥", "緦", "緧", "編",
     "緩", "緪", "緫", "緬", "緭", "緮", "緯", "緰", "緱", "緲", "緳", "練", "緵", "緶", "緷", "緸",
     "緹", "緺", "緻", "緼", "緽", "緾", "緿", "纀", "纁", "纂", "纃", "纄", "纅", "纆", "纇", "纈",
     "纉", "纊", "纋", "續", "纍", "纎", "纏", "纐", "纑", "纒", "纓", "纔", "纕", "纖", "纗", "纘",
     "纙", "纚", "纛", "纜", "纝", "纞", "纟", "纠", "纡", "红", "纣", "纤", "纥", "约", "级", "纨",
     "纩", "纪", "纫", "纬", "纭", "纮", "纯", "纰", "纱", "纲", "纳", "纴", "纵", "纶", "纷", "纸",
     "纹", "纺", "纻", "纼", "纽", "纾", "线", "绀", "绁", "绂", "练", "组", "绅", "细", "织", "终",
     "绉", "绊", "绋", "绌", "绍", "绎", "经", "绐", "绑", "绒", "结", "绔", "绕", "绖", "绗", "绘",
     "给", "绚", "绛", "络", "绝", "绞", "统", "绠", "绡", "绢", "绣", "绤", "绥", "绦", "继", "绨",
     "绩", "绪", "绫", "绬", "续", "绮", "绯", "绰", "绱", "绲", "绳", "维", "绵", "绶", "绷", "绸",
     "绹", "绺", "绻", "综", "绽", "绾", "绿", "羀", "羁", "羂", "羃", "羄", "羅", "羆", "羇", "羈",
     "羉", "羊", "羋", "羌", "羍", "美", "羏", "羐", "羑", "羒", "羓", "羔", "羕", "羖", "羗", "羘",
     "羙", "羚", "羛", "羜", "羝", "羞", "羟", "羠", "羡", "羢", "羣", "群", "羥", "羦", "羧", "羨",
     "義", "羪", "羫", "羬", "羭", "羮", "羯", "羰", "羱", "羲", "羳", "羴", "羵", "羶", "羷", "羸",
     "羹", "羺", "羻", "羼", "羽", "羾", "羿", "翀", "翁", "翂", "翃", "翄", "翅", "翆", "翇", "翈",
     "翉", "翊", "翋", "翌", "翍", "翎", "翏", "翐", "翑", "習", "翓", "翔", "翕", "翖", "翗", "翘",
     "翙", "翚", "翛", "翜", "翝", "翞", "翟", "翠", "翡", "翢", "翣", "翤", "翥", "翦", "翧", "翨",
     "翩", "翪", "翫", "翬", "翭", "翮", "翯", "翰", "翱", "翲", "翳", "翴", "翵", "翶", "翷", "翸",
     "翹", "翺", "翻", "翼", "翽", "翾", "翿", "肀", "肁", "肂", "肃", "肄", "肅", "肆", "肇", "肈",
     "肉", "肊", "肋", "肌", "肍", "肎", "肏", "肐", "肑", "肒", "肓", "肔", "肕", "肖", "肗", "肘",
     "肙", "肚", "肛", "肜", "肝", "肞", "肟", "肠", "股", "肢", "肣", "肤", "肥", "肦", "肧", "肨",
     "肩", "肪", "肫", "肬", "肭", "肮", "肯", "肰", "肱", "育", "肳", "肴", "肵", "肶", "肷", "肸",
     "肹", "肺", "肻", "肼", "肽", "肾", "肿", "胀", "胁", "胂", "胃", "胄", "胅", "胆", "胇", "胈",
     "胉", "胊", "胋", "背", "胍", "胎", "胏", "胐", "胑", "胒", "胓", "胔", "胕", "胖", "胗", "胘",
     "胙", "胚", "胛", "胜", "胝", "胞", "胟", "胠", "胡", "胢", "胣", "胤", "胥", "胦", "胧", "胨",
     "胩", "胪", "胫", "胬", "胭", "胮", "胯", "胰", "胱", "胲", "胳", "胴", "胵", "胶", "胷", "胸",
     "胹", "胺", "胻", "胼", "能", "胾", "胿", "膀", "膁", "膂", "膃", "膄", "膅", "膆", "膇", "膈",
     "膉", "膊", "膋", "膌", "膍", "膎", "膏", "膐", "膑", "膒", "膓", "膔", "膕", "膖", "膗", "膘",
     "膙", "膚", "膛", "膜", "膝", "膞", "膟", "膠", "膡", "膢", "膣", "膤", "膥", "膦", "膧", "膨",
     "膩", "膪", "膫", "膬", "膭", "膮", "膯", "膰", "膱", "膲", "膳", "膴", "膵", "膶", "膷", "膸",
     "膹", "膺", "膻", "膼", "膽", "膾", "膿", "臀", "臁", "臂", "臃", "臄", "臅", "臆", "臇", "臈",
     "臉", "臊", "臋", "臌", "臍", "臎", "臏", "臐", "臑", "臒", "臓", "臔", "臕", "臖", "臗", "臘",
     "臙", "臚", "臛", "臜", "臝", "臞", "臟", "臠", "臡", "臢", "臣", "臤", "臥", "臦", "臧", "臨",
     "臩", "自", "臫", "臬", "臭", "臮", "臯", "臰", "臱", "臲", "至", "致", "臵", "臶", "臷", "臸",
     "臹", "臺", "臻", "臼", "臽", "臾", "臿", "芀", "芁", "节", "芃", "芄", "芅", "芆", "芇", "芈",
     "芉", "芊", "芋", "芌", "芍", "芎", "芏", "芐", "芑", "芒", "芓", "芔", "芕", "芖", "芗", "芘",
     "芙", "芚", "芛", "芜", "芝", "芞", "芟", "芠", "芡", "芢", "芣", "芤", "芥", "芦", "芧", "芨",
     "芩", "芪", "芫", "芬", "芭", "芮", "芯", "芰", "花", "芲", "芳", "芴", "芵", "芶", "芷", "芸",
     "芹", "芺", "芻", "芼", "芽", "芾", "芿", "苀", "苁", "苂", "苃", "苄", "苅", "苆", "苇", "苈",
     "苉", "苊", "苋", "苌", "苍", "苎", "苏", "苐", "苑", "苒", "苓", "苔", "苕", "苖", "苗", "苘",
     "苙", "苚", "苛", "苜", "苝", "苞", "苟", "苠", "苡", "苢", "苣", "苤", "若", "苦", "苧", "苨",
     "苩", "苪", "苫", "苬", "苭", "苮", "苯", "苰", "英", "苲", "苳", "苴", "苵", "苶", "苷", "苸",
     "苹", "苺", "苻", "苼", "苽", "苾", "苿", "莀", "莁", "莂", "莃", "莄", "莅", "莆", "莇", "莈",
     "莉", "莊", "莋", "莌", "莍", "莎", "莏", "莐", "莑", "莒", "莓", "莔", "莕", "莖", "莗", "莘",
     "莙", "莚", "莛", "莜", "莝", "莞", "莟", "莠", "莡", "莢", "莣", "莤", "莥", "莦", "莧", "莨",
     "莩", "莪", "莫", "莬", "莭", "莮", "莯", "莰", "莱", "莲", "莳", "莴", "莵", "莶", "获", "莸",
     "莹", "莺", "莻", "莼", "莽", "莾", "莿", "菀", "菁", "菂", "菃", "菄", "菅", "菆", "菇", "菈",
     "菉", "菊", "菋", "菌", "菍", "菎", "菏", "菐", "菑", "菒", "菓", "菔", "菕", "菖", "菗", "菘",
     "菙", "菚", "菛", "菜", "菝", "菞", "菟", "菠", "菡", "菢", "菣", "菤", "菥", "菦", "菧", "菨",
     "菩", "菪", "菫", "菬", "菭", "菮", "華", "菰", "菱", "菲", "菳", "菴", "菵", "菶", "菷", "菸",
     "菹", "菺", "菻", "菼", "菽", "菾", "菿", "蒀", "蒁", "蒂", "蒃", "蒄", "蒅", "蒆", "蒇", "蒈",
     "蒉", "蒊", "蒋", "蒌", "蒍", "蒎", "蒏", "蒐", "蒑", "蒒", "蒓", "蒔", "蒕", "蒖", "蒗", "蒘",
     "蒙", "蒚", "蒛", "蒜", "蒝", "蒞", "蒟", "蒠", "蒡", "蒢", "蒣", "蒤", "蒥", "蒦", "蒧", "蒨",
     "蒩", "蒪", "蒫", "蒬", "蒭", "蒮", "蒯", "蒰", "蒱", "蒲", "蒳", "蒴", "蒵", "蒶", "蒷", "蒸",
     "蒹", "蒺", "蒻", "蒼", "蒽", "蒾", "蒿", "蓀", "蓁", "蓂", "蓃", "蓄", "蓅", "蓆", "蓇", "蓈",
     "蓉", "蓊", "蓋", "蓌", "蓍", "蓎", "蓏", "蓐", "蓑", "蓒", "蓓", "蓔", "蓕", "蓖", "蓗", "蓘",
     "蓙", "蓚", "蓛", "蓜", "蓝", "蓞", "蓟", "蓠", "蓡", "蓢", "蓣", "蓤", "蓥", "蓦", "蓧", "蓨",
     "蓩", "蓪", "蓫", "蓬", "蓭", "蓮", "蓯", "蓰", "蓱", "蓲", "蓳", "蓴", "蓵", "蓶", "蓷", "蓸",
     "蓹", "蓺", "蓻", "蓼", "蓽", "蓾", "蓿", "薀", "薁", "薂", "薃", "薄", "薅", "薆", "薇", "薈",
     "薉", "薊", "薋", "薌", "薍", "薎", "薏", "薐", "薑", "薒", "薓", "薔", "薕", "薖", "薗", "薘",
     "薙", "薚", "薛", "薜", "薝", "薞", "薟", "薠", "薡", "薢", "薣", "薤", "薥", "薦", "薧", "薨",
     "薩", "薪", "薫", "薬", "薭", "薮", "薯", "薰", "薱", "薲", "薳", "薴", "薵", "薶", "薷", "薸",
     "薹", "薺", "薻", "薼", "薽", "薾", "薿", "藀", "藁", "藂", "藃", "藄", "藅", "藆", "藇", "藈",
     "藉", "藊", "藋", "藌", "藍", "藎", "藏", "藐", "藑", "藒", "藓", "藔", "藕", "藖", "藗", "藘",
     "藙", "藚", "藛", "藜", "藝", "藞", "藟", "藠", "藡", "藢", "藣", "藤", "藥", "藦", "藧", "藨",
     "藩", "藪", "藫", "藬", "藭", "藮", "藯", "藰", "藱", "藲", "藳", "藴", "藵", "藶", "藷", "藸",
     "藹", "藺", "藻", "藼", "藽", "藾", "藿", "蚀", "蚁", "蚂", "蚃", "蚄", "蚅", "蚆", "蚇", "蚈",
     "蚉", "蚊", "蚋", "蚌", "蚍", "蚎", "蚏", "蚐", "蚑", "蚒", "蚓", "蚔", "蚕", "蚖", "蚗", "蚘",
     "蚙", "蚚", "蚛", "蚜", "蚝", "蚞", "蚟", "蚠", "蚡", "蚢", "蚣", "蚤", "蚥", "蚦", "蚧", "蚨",
     "蚩", "蚪", "蚫", "蚬", "蚭", "蚮", "蚯", "蚰", "蚱", "蚲", "蚳", "蚴", "蚵", "蚶", "蚷", "蚸",
     "蚹", "蚺", "蚻", "蚼", "蚽", "蚾", "蚿", "蛀", "蛁", "蛂", "蛃", "蛄", "蛅", "蛆", "蛇", "蛈",
     "蛉", "蛊", "蛋", "蛌", "蛍", "蛎", "蛏", "蛐", "蛑", "蛒", "蛓", "蛔", "蛕", "蛖", "蛗", "蛘",
     "蛙", "蛚", "蛛", "蛜", "蛝", "蛞", "蛟", "蛠", "蛡", "蛢", "蛣", "蛤", "蛥", "蛦", "蛧", "蛨",
     "蛩", "蛪", "蛫", "蛬", "蛭", "蛮", "蛯", "蛰", "蛱", "蛲", "蛳", "蛴", "蛵", "蛶", "蛷", "蛸",
     "蛹", "蛺", "蛻", "蛼", "蛽", "蛾", "蛿", "螀", "螁", "螂", "螃", "螄", "螅", "螆", "螇", "螈",
     "螉", "螊", "螋", "螌", "融", "螎", "螏", "螐", "螑", "螒", "螓", "螔", "螕", "螖", "螗", "螘",
     "螙", "螚", "螛", "螜", "螝", "螞", "螟", "螠", "螡", "螢", "螣", "螤", "螥", "螦", "螧", "螨",
     "螩", "螪", "螫", "螬", "螭", "螮", "螯", "螰", "螱", "螲", "螳", "螴", "螵", "螶", "螷", "螸",
     "螹", "螺", "螻", "螼", "螽", "螾", "螿", "蟀", "蟁", "蟂", "蟃", "蟄", "蟅", "蟆", "蟇", "蟈",
     "蟉", "蟊", "蟋", "蟌", "蟍", "蟎", "蟏", "蟐", "蟑", "蟒", "蟓", "蟔", "蟕", "蟖", "蟗", "蟘",
     "蟙", "蟚", "蟛", "蟜", "蟝", "蟞", "蟟", "蟠", "蟡", "蟢", "蟣", "蟤", "蟥", "蟦", "蟧", "蟨",
     "蟩", "蟪", "蟫", "蟬", "蟭", "蟮", "蟯", "蟰", "蟱", "蟲", "蟳", "蟴", "蟵", "蟶", "蟷", "蟸",
     "蟹", "蟺", "蟻", "蟼", "蟽", "蟾", "蟿", "袀", "袁", "袂", "袃", "袄", "袅", "袆", "袇", "袈",
     "袉", "袊", "袋", "袌", "袍", "袎", "袏", "袐", "袑", "袒", "袓", "袔", "袕", "袖", "袗", "袘",
     "袙", "袚", "袛", "袜", "袝", "袞", "袟", "袠", "袡", "袢", "袣", "袤", "袥", "袦", "袧", "袨",
     "袩", "袪", "被", "袬", "袭", "袮", "袯", "袰", "袱", "袲", "袳", "袴", "袵", "袶", "袷", "袸",
     "袹", "袺", "袻", "袼", "袽", "袾", "袿", "裀", "裁", "裂", "裃", "裄", "装", "裆", "裇", "裈",
     "裉", "裊", "裋", "裌", "裍", "裎", "裏", "裐", "裑", "裒", "裓", "裔", "裕", "裖", "裗", "裘",
     "裙", "裚", "裛", "補", "裝", "裞", "裟", "裠", "裡", "裢", "裣", "裤", "裥", "裦", "裧", "裨",
     "裩", "裪", "裫", "裬", "裭", "裮", "裯", "裰", "裱", "裲", "裳", "裴", "裵", "裶", "裷", "裸",
     "裹", "裺", "裻", "裼", "製", "裾", "裿", "覀", "要", "覂", "覃", "覄", "覅", "覆", "覇", "覈",
     "覉", "覊", "見", "覌", "覍", "覎", "規", "覐", "覑", "覒", "覓", "覔", "覕", "視", "覗", "覘",
     "覙", "覚", "覛", "覜", "覝", "覞", "覟", "覠", "覡", "覢", "覣", "覤", "覥", "覦", "覧", "覨",
     "覩", "親", "覫", "覬", "覭", "覮", "覯", "覰", "覱", "覲", "観", "覴", "覵", "覶", "覷", "覸",
     "覹", "覺", "覻", "覼", "覽", "覾", "覿", "觀", "见", "观", "觃", "规", "觅", "视", "觇", "览",
     "觉", "觊", "觋", "觌", "觍", "觎", "觏", "觐", "觑", "角", "觓", "觔", "觕", "觖", "觗", "觘",
     "觙", "觚", "觛", "觜", "觝", "觞", "觟", "觠", "觡", "觢", "解", "觤", "觥", "触", "觧", "觨",
     "觩", "觪", "觫", "觬", "觭", "觮", "觯", "觰", "觱", "觲", "觳", "觴", "觵", "觶", "觷", "觸",
     "觹", "觺", "觻", "觼", "觽", "觾", "觿", "誀", "誁", "誂", "誃", "誄", "誅", "誆", "誇", "誈",
     "誉", "誊", "誋", "誌", "認", "誎", "誏", "誐", "誑", "誒", "誓", "誔", "誕", "誖", "誗", "誘",
     "誙", "誚", "誛", "誜", "誝", "語", "誟", "誠", "誡", "誢", "誣", "誤", "誥", "誦", "誧", "誨",
     "誩", "說", "誫", "説", "読", "誮", "誯", "誰", "誱", "課", "誳", "誴", "誵", "誶", "誷", "誸",
     "誹", "誺", "誻", "誼", "誽", "誾", "調", "諀", "諁", "諂", "諃", "諄", "諅", "諆", "談", "諈",
     "諉", "諊", "請", "諌", "諍", "諎", "諏", "諐", "諑", "諒", "諓", "諔", "諕", "論", "諗", "諘",
     "諙", "諚", "諛", "諜", "諝", "諞", "諟", "諠", "諡", "諢", "諣", "諤", "諥", "諦", "諧", "諨",
     "諩", "諪", "諫", "諬", "諭", "諮", "諯", "諰", "諱", "諲", "諳", "諴", "諵", "諶", "諷", "諸",
     "諹", "諺", "諻", "諼", "諽", "諾", "諿", "讀", "讁", "讂", "讃", "讄", "讅", "讆", "讇", "讈",
     "讉", "變", "讋", "讌", "讍", "讎", "讏", "讐", "讑", "讒", "讓", "讔", "讕", "讖", "讗", "讘",
     "讙", "讚", "讛", "讜", "讝", "讞", "讟", "讠", "计", "订", "讣", "认", "讥", "讦", "讧", "讨",
     "让", "讪", "讫", "讬", "训", "议", "讯", "记", "讱", "讲", "讳", "讴", "讵", "讶", "讷", "许",
     "讹", "论", "讻", "讼", "讽", "设", "访", "诀", "证", "诂", "诃", "评", "诅", "识", "诇", "诈",
     "诉", "诊", "诋", "诌", "词", "诎", "诏", "诐", "译", "诒", "诓", "诔", "试", "诖", "诗", "诘",
     "诙", "诚", "诛", "诜", "话", "诞", "诟", "诠", "诡", "询", "诣", "诤", "该", "详", "诧", "诨",
     "诩", "诪", "诫", "诬", "语", "诮", "误", "诰", "诱", "诲", "诳", "说", "诵", "诶", "请", "诸",
     "诹", "诺", "读", "诼", "诽", "课", "诿", "貀", "貁", "貂", "貃", "貄", "貅", "貆", "貇", "貈",
     "貉", "貊", "貋", "貌", "貍", "貎", "貏", "貐", "貑", "貒", "貓", "貔", "貕", "貖", "貗", "貘",
     "貙", "貚", "貛", "貜", "貝", "貞", "貟", "負", "財", "貢", "貣", "貤", "貥", "貦", "貧", "貨",
     "販", "貪", "貫", "責", "貭", "貮", "貯", "貰", "貱", "貲", "貳", "貴", "貵", "貶", "買", "貸",
     "貹", "貺", "費", "貼", "貽", "貾", "貿", "賀", "賁", "賂", "賃", "賄", "賅", "賆", "資", "賈",
     "賉", "賊", "賋", "賌", "賍", "賎", "賏", "賐", "賑", "賒", "賓", "賔", "賕", "賖", "賗", "賘",
     "賙", "賚", "賛", "賜", "賝", "賞", "賟", "賠", "賡", "賢", "賣", "賤", "賥", "賦", "賧", "賨",
     "賩", "質", "賫", "賬", "賭", "賮", "賯", "賰", "賱", "賲", "賳", "賴", "賵", "賶", "賷", "賸",
     "賹", "賺", "賻", "購", "賽", "賾", "賿", "趀", "趁", "趂", "趃", "趄", "超", "趆", "趇", "趈",
     "趉", "越", "趋", "趌", "趍", "趎", "趏", "趐", "趑", "趒", "趓", "趔", "趕", "趖", "趗", "趘",
     "趙", "趚", "趛", "趜", "趝", "趞", "趟", "趠", "趡", "趢", "趣", "趤", "趥", "趦", "趧", "趨",
     "趩", "趪", "趫", "趬", "趭", "趮", "趯", "趰", "趱", "趲", "足", "趴", "趵", "趶", "趷", "趸",
     "趹", "趺", "趻", "趼", "趽", "趾", "趿", "跀", "跁", "跂", "跃", "跄", "跅", "跆", "跇", "跈",
     "跉", "跊", "跋", "跌", "跍", "跎", "跏", "跐", "跑", "跒", "跓", "跔", "跕", "跖", "跗", "跘",
     "跙", "跚", "跛", "跜", "距", "跞", "跟", "跠", "跡", "跢", "跣", "跤", "跥", "跦", "跧", "跨",
     "跩", "跪", "跫", "跬", "跭", "跮", "路", "跰", "跱", "跲", "跳", "跴", "践", "跶", "跷", "跸",
     "跹", "跺", "跻", "跼", "跽", "跾", "跿", "躀", "躁", "躂", "躃", "躄", "躅", "躆", "躇", "躈",
     "躉", "躊", "躋", "躌", "躍", "躎", "躏", "躐", "躑", "躒", "躓", "躔", "躕", "躖", "躗", "躘",
     "躙", "躚", "躛", "躜", "躝", "躞", "躟", "躠", "躡", "躢", "躣", "躤", "躥", "躦", "躧", "躨",
     "躩", "躪", "身", "躬", "躭", "躮", "躯", "躰", "躱", "躲", "躳", "躴", "躵", "躶", "躷", "躸",
     "躹", "躺", "躻", "躼", "躽", "躾", "躿", "軀", "軁", "軂", "軃", "軄", "軅", "軆", "軇", "軈",
     "軉", "車", "軋", "軌", "軍", "軎", "軏", "軐", "軑", "軒", "軓", "軔", "軕", "軖", "軗", "軘",
     "軙", "軚", "軛", "軜", "軝", "軞", "軟", "軠", "軡", "転", "軣", "軤", "軥", "軦", "軧", "軨",
     "軩", "軪", "軫", "軬", "軭", "軮", "軯", "軰", "軱", "軲", "軳", "軴", "軵", "軶", "軷", "軸",
     "軹", "軺", "軻", "軼", "軽", "軾", "軿", "辀", "辁", "辂", "较", "辄", "辅", "辆", "辇", "辈",
     "辉", "辊", "辋", "辌", "辍", "辎", "辏", "辐", "辑", "辒", "输", "辔", "辕", "辖", "辗", "辘",
     "辙", "辚", "辛", "辜", "辝", "辞", "辟", "辠", "辡", "辢", "辣", "辤", "辥", "辦", "辧", "辨",
     "辩", "辪", "辫", "辬", "辭", "辮", "辯", "辰", "辱", "農", "辳", "辴", "辵", "辶", "辷", "辸",
     "边", "辺", "辻", "込", "辽", "达", "辿", "迀", "迁", "迂", "迃", "迄", "迅", "迆", "过", "迈",
     "迉", "迊", "迋", "迌", "迍", "迎", "迏", "运", "近", "迒", "迓", "返", "迕", "迖", "迗", "还",
     "这", "迚", "进", "远", "违", "连", "迟", "迠", "迡", "迢", "迣", "迤", "迥", "迦", "迧", "迨",
     "迩", "迪", "迫", "迬", "迭", "迮", "迯", "述", "迱", "迲", "迳", "迴", "迵", "迶", "迷", "迸",
     "迹", "迺", "迻", "迼", "追", "迾", "迿", "邀", "邁", "邂", "邃", "還", "邅", "邆", "邇", "邈",
     "邉", "邊", "邋", "邌", "邍", "邎", "邏", "邐", "邑", "邒", "邓", "邔", "邕", "邖", "邗", "邘",
     "邙", "邚", "邛", "邜", "邝", "邞", "邟", "邠", "邡", "邢", "那", "邤", "邥", "邦", "邧", "邨",
     "邩", "邪", "邫", "邬", "邭", "邮", "邯", "邰", "邱", "邲", "邳", "邴", "邵", "邶", "邷", "邸",
     "邹", "邺", "邻", "邼", "邽", "邾", "邿", "郀", "郁", "郂", "郃", "郄", "郅", "郆", "郇", "郈",
     "郉", "郊", "郋", "郌", "郍", "郎", "郏", "郐", "郑", "郒", "郓", "郔", "郕", "郖", "郗", "郘",
     "郙", "郚", "郛", "郜", "郝", "郞", "郟", "郠", "郡", "郢", "郣", "郤", "郥", "郦", "郧", "部",
     "郩", "郪", "郫", "郬", "郭", "郮", "郯", "郰", "郱", "郲", "郳", "郴", "郵", "郶", "郷", "郸",
     "郹", "郺", "郻", "郼", "都", "郾", "郿", "醀", "醁", "醂", "醃", "醄", "醅", "醆", "醇", "醈",
     "醉", "醊", "醋", "醌", "醍", "醎", "醏", "醐", "醑", "醒", "醓", "醔", "醕", "醖", "醗", "醘",
     "醙", "醚", "醛", "醜", "醝", "醞", "醟", "醠", "醡", "醢", "醣", "醤", "醥", "醦", "醧", "醨",
     "醩", "醪", "醫", "醬", "醭", "醮", "醯", "醰", "醱", "醲", "醳", "醴", "醵", "醶", "醷", "醸",
     "醹", "醺", "醻", "醼", "醽", "醾", "醿", "釀", "釁", "釂", "釃", "釄", "釅", "釆", "采", "釈",
     "釉", "释", "釋", "里", "重", "野", "量", "釐", "金", "釒", "釓", "釔", "釕", "釖", "釗", "釘",
     "釙", "釚", "釛", "釜", "針", "釞", "釟", "釠", "釡", "釢", "釣", "釤", "釥", "釦", "釧", "釨",
     "釩", "釪", "釫", "釬", "釭", "釮", "釯", "釰", "釱", "釲", "釳", "釴", "釵", "釶", "釷", "釸",
     "釹", "釺", "釻", "釼", "釽", "釾", "釿", "銀", "銁", "銂", "銃", "銄", "銅", "銆", "銇", "銈",
     "銉", "銊", "銋", "銌", "銍", "銎", "銏", "銐", "銑", "銒", "銓", "銔", "銕", "銖", "銗", "銘",
     "銙", "銚", "銛", "銜", "銝", "銞", "銟", "銠", "銡", "銢", "銣", "銤", "銥", "銦", "銧", "銨",
     "銩", "銪", "銫", "銬", "銭", "銮", "銯", "銰", "銱", "銲", "銳", "銴", "銵", "銶", "銷", "銸",
     "銹", "銺", "銻", "銼", "銽", "銾", "銿", "鋀", "鋁", "鋂", "鋃", "鋄", "鋅", "鋆", "鋇", "鋈",
     "鋉", "鋊", "鋋", "鋌", "鋍", "鋎", "鋏", "鋐", "鋑", "鋒", "鋓", "鋔", "鋕", "鋖", "鋗", "鋘",
     "鋙", "鋚", "鋛", "鋜", "鋝", "鋞", "鋟", "鋠", "鋡", "鋢", "鋣", "鋤", "鋥", "鋦", "鋧", "鋨",
     "鋩", "鋪", "鋫", "鋬", "鋭", "鋮", "鋯", "鋰", "鋱", "鋲", "鋳", "鋴", "鋵", "鋶", "鋷", "鋸",
     "鋹", "鋺", "鋻", "鋼", "鋽", "鋾", "鋿", "鎀", "鎁", "鎂", "鎃", "鎄", "鎅", "鎆", "鎇", "鎈",
     "鎉", "鎊", "鎋", "鎌", "鎍", "鎎", "鎏", "鎐", "鎑", "鎒", "鎓", "鎔", "鎕", "鎖", "鎗", "鎘",
     "鎙", "鎚", "鎛", "鎜", "鎝", "鎞", "鎟", "鎠", "鎡", "鎢", "鎣", "鎤", "鎥", "鎦", "鎧", "鎨",
     "鎩", "鎪", "鎫", "鎬", "鎭", "鎮", "鎯", "鎰", "鎱", "鎲", "鎳", "鎴", "鎵", "鎶", "鎷", "鎸",
     "鎹", "鎺", "鎻", "鎼", "鎽", "鎾", "鎿", "鏀", "鏁", "鏂", "鏃", "鏄", "鏅", "鏆", "鏇", "鏈",
     "鏉", "鏊", "鏋", "鏌", "鏍", "鏎", "鏏", "鏐", "鏑", "鏒", "鏓", "鏔", "鏕", "鏖", "鏗", "鏘",
     "鏙", "鏚", "鏛", "鏜", "鏝", "鏞", "鏟", "鏠", "鏡", "鏢", "鏣", "鏤", "鏥", "鏦", "鏧", "鏨",
     "鏩", "鏪", "鏫", "鏬", "鏭", "鏮", "鏯", "鏰", "鏱", "鏲", "鏳", "鏴", "鏵", "鏶", "鏷", "鏸",
     "鏹", "鏺", "鏻", "鏼", "鏽", "鏾", "鏿", "钀", "钁", "钂", "钃", "钄", "钅", "钆", "钇", "针",
     "钉", "钊", "钋", "钌", "钍", "钎", "钏", "钐", "钑", "钒", "钓", "钔", "钕", "钖", "钗", "钘",
     "钙", "钚", "钛", "钜", "钝", "钞", "钟", "钠", "钡", "钢", "钣", "钤", "钥", "钦", "钧", "钨",
     "钩", "钪", "钫", "钬", "钭", "钮", "钯", "钰", "钱", "钲", "钳", "钴", "钵", "钶", "钷", "钸",
     "钹", "钺", "钻", "钼", "钽", "钾", "钿", "铀", "铁", "铂", "铃", "铄", "铅", "铆", "铇", "铈",
     "铉", "铊", "铋", "铌", "铍", "铎", "铏", "铐", "铑", "铒", "铓", "铔", "铕", "铖", "铗", "铘",
     "铙", "铚", "铛", "铜", "铝", "铞", "铟", "铠", "铡", "铢", "铣", "铤", "铥", "铦", "铧", "铨",
     "铩", "铪", "铫", "铬", "铭", "铮", "铯", "铰", "铱", "铲", "铳", "铴", "铵", "银", "铷", "铸",
     "铹", "铺", "铻", "铼", "铽", "链", "铿", "門", "閁", "閂", "閃", "閄", "閅", "閆", "閇", "閈",
     "閉", "閊", "開", "閌", "閍", "閎", "閏", "閐", "閑", "閒", "間", "閔", "閕", "閖", "閗", "閘",
     "閙", "閚", "閛", "閜", "閝", "閞", "閟", "閠", "閡", "関", "閣", "閤", "閥", "閦", "閧", "閨",
     "閩", "閪", "閫", "閬", "閭", "閮", "閯", "閰", "閱", "閲", "閳", "閴", "閵", "閶", "閷", "閸",
     "閹", "閺", "閻", "閼", "閽", "閾", "閿", "闀", "闁", "闂", "闃", "闄", "闅", "闆", "闇", "闈",
     "闉", "闊", "闋", "闌", "闍", "闎", "闏", "闐", "闑", "闒", "闓", "闔", "闕", "闖", "闗", "闘",
     "闙", "闚", "闛", "關", "闝", "闞", "闟", "闠", "闡", "闢", "闣", "闤", "闥", "闦", "闧", "门",
     "闩", "闪", "闫", "闬", "闭", "问", "闯", "闰", "闱", "闲", "闳", "间", "闵", "闶", "闷", "闸",
     "闹", "闺", "闻", "闼", "闽", "闾", "闿", "隀", "隁", "隂", "隃", "隄", "隅", "隆", "隇", "隈",
     "隉", "隊", "隋", "隌", "隍", "階", "随", "隐", "隑", "隒", "隓", "隔", "隕", "隖", "隗", "隘",
     "隙", "隚", "際", "障", "隝", "隞", "隟", "隠", "隡", "隢", "隣", "隤", "隥", "隦", "隧", "隨",
     "隩", "險", "隫", "隬", "隭", "隮", "隯", "隰", "隱", "隲", "隳", "隴", "隵", "隶", "隷", "隸",
     "隹", "隺", "隻", "隼", "隽", "难", "隿", "雀", "雁", "雂", "雃", "雄", "雅", "集", "雇", "雈",
     "雉", "雊", "雋", "雌", "雍", "雎", "雏", "雐", "雑", "雒", "雓", "雔", "雕", "雖", "雗", "雘",
     "雙", "雚", "雛", "雜", "雝", "雞", "雟", "雠", "雡", "離", "難", "雤", "雥", "雦", "雧", "雨",
     "雩", "雪", "雫", "雬", "雭", "雮", "雯", "雰", "雱", "雲", "雳", "雴", "雵", "零", "雷", "雸",
     "雹", "雺", "電", "雼", "雽", "雾", "雿", "鞀", "鞁", "鞂", "鞃", "鞄", "鞅", "鞆", "鞇", "鞈",
     "鞉", "鞊", "鞋", "鞌", "鞍", "鞎", "鞏", "鞐", "鞑", "鞒", "鞓", "鞔", "鞕", "鞖", "鞗", "鞘",
     "鞙", "鞚", "鞛", "鞜", "鞝", "鞞", "鞟", "鞠", "鞡", "鞢", "鞣", "鞤", "鞥", "鞦", "鞧", "鞨",
     "鞩", "鞪", "鞫", "鞬", "鞭", "鞮", "鞯", "鞰", "鞱", "鞲", "鞳", "鞴", "鞵", "鞶", "鞷", "鞸",
     "鞹", "鞺", "鞻", "鞼", "鞽", "鞾", "鞿", "韀", "韁", "韂", "韃", "韄", "韅", "韆", "韇", "韈",
     "韉", "韊", "韋", "韌", "韍", "韎", "韏", "韐", "韑", "韒", "韓", "韔", "韕", "韖", "韗", "韘",
     "韙", "韚", "韛", "韜", "韝", "韞", "韟", "韠", "韡", "韢", "韣", "韤", "韥", "韦", "韧", "韨",
     "韩", "韪", "韫", "韬", "韭", "韮", "韯", "韰", "韱", "韲", "音", "韴", "韵", "韶", "韷", "韸",
     "韹", "韺", "韻", "韼", "韽", "韾", "響", "颀", "颁", "颂", "颃", "预", "颅", "领", "颇", "颈",
     "颉", "颊", "颋", "颌", "颍", "颎", "颏", "颐", "频", "颒", "颓", "颔", "颕", "颖", "颗", "题",
     "颙", "颚", "颛", "颜", "额", "颞", "颟", "颠", "颡", "颢", "颣", "颤", "颥", "颦", "颧", "風",
     "颩", "颪", "颫", "颬", "颭", "颮", "颯", "颰", "颱", "颲", "颳", "颴", "颵", "颶", "颷", "颸",
     "颹", "颺", "颻", "颼", "颽", "颾", "颿", "飀", "飁", "飂", "飃", "飄", "飅", "飆", "飇", "飈",
     "飉", "飊", "飋", "飌", "飍", "风", "飏", "飐", "飑", "飒", "飓", "飔", "飕", "飖", "飗", "飘",
     "飙", "飚", "飛", "飜", "飝", "飞", "食", "飠", "飡", "飢", "飣", "飤", "飥", "飦", "飧", "飨",
     "飩", "飪", "飫", "飬", "飭", "飮", "飯", "飰", "飱", "飲", "飳", "飴", "飵", "飶", "飷", "飸",
     "飹", "飺", "飻", "飼", "飽", "飾", "飿", "馀", "馁", "馂", "馃", "馄", "馅", "馆", "馇", "馈",
     "馉", "馊", "馋", "馌", "馍", "馎", "馏", "馐", "馑", "馒", "馓", "馔", "馕", "首", "馗", "馘",
     "香", "馚", "馛", "馜", "馝", "馞", "馟", "馠", "馡", "馢", "馣", "馤", "馥", "馦", "馧", "馨",
     "馩", "馪", "馫", "馬", "馭", "馮", "馯", "馰", "馱", "馲", "馳", "馴", "馵", "馶", "馷", "馸",
     "馹", "馺", "馻", "馼", "馽", "馾", "馿", "駀", "駁", "駂", "駃", "駄", "駅", "駆", "駇", "駈",
     "駉", "駊", "駋", "駌", "駍", "駎", "駏", "駐", "駑", "駒", "駓", "駔", "駕", "駖", "駗", "駘",
     "駙", "駚", "駛", "駜", "駝", "駞", "駟", "駠", "駡", "駢", "駣", "駤", "駥", "駦", "駧", "駨",
     "駩", "駪", "駫", "駬", "駭", "駮", "駯", "駰", "駱", "駲", "駳", "駴", "駵", "駶", "駷", "駸",
     "駹", "駺", "駻", "駼", "駽", "駾", "駿", "骀", "骁", "骂", "骃", "骄", "骅", "骆", "骇", "骈",
     "骉", "骊", "骋", "验", "骍", "骎", "骏", "骐", "骑", "骒", "骓", "骔", "骕", "骖", "骗", "骘",
     "骙", "骚", "骛", "骜", "骝", "骞", "骟", "骠", "骡", "骢", "骣", "骤", "骥", "骦", "骧", "骨",
     "骩", "骪", "骫", "骬", "骭", "骮", "骯", "骰", "骱", "骲", "骳", "骴", "骵", "骶", "骷", "骸",
     "骹", "骺", "骻", "骼", "骽", "骾", "骿", "髀", "髁", "髂", "髃", "髄", "髅", "髆", "髇", "髈",
     "髉", "髊", "髋", "髌", "髍", "髎", "髏", "髐", "髑", "髒", "髓", "體", "髕", "髖", "髗", "高",
     "髙", "髚", "髛", "髜", "髝", "髞", "髟", "髠", "髡", "髢", "髣", "髤", "髥", "髦", "髧", "髨",
     "髩", "髪", "髫", "髬", "髭", "髮", "髯", "髰", "髱", "髲", "髳", "髴", "髵", "髶", "髷", "髸",
     "髹", "髺", "髻", "髼", "髽", "髾", "髿", "鮀", "鮁", "鮂", "鮃", "鮄", "鮅", "鮆", "鮇", "鮈",
     "鮉", "鮊", "鮋", "鮌", "鮍", "鮎", "鮏", "鮐", "鮑", "鮒", "鮓", "鮔", "鮕", "鮖", "鮗", "鮘",
     "鮙", "鮚", "鮛", "鮜", "鮝", "鮞", "鮟", "鮠", "鮡", "鮢", "鮣", "鮤", "鮥", "鮦", "鮧", "鮨",
     "鮩", "鮪", "鮫", "鮬", "鮭", "鮮", "鮯", "鮰", "鮱", "鮲", "鮳", "鮴", "鮵", "鮶", "鮷", "鮸",
     "鮹", "鮺", "鮻", "鮼", "鮽", "鮾", "鮿", "鯀", "鯁", "鯂", "鯃", "鯄", "鯅", "鯆", "鯇", "鯈",
     "鯉", "鯊", "鯋", "鯌", "鯍", "鯎", "鯏", "鯐", "鯑", "鯒", "鯓", "鯔", "鯕", "鯖", "鯗", "鯘",
     "鯙", "鯚", "鯛", "鯜", "鯝", "鯞", "鯟", "鯠", "鯡", "鯢", "鯣", "鯤", "鯥", "鯦", "鯧", "鯨",
     "鯩", "鯪", "鯫", "鯬", "鯭", "鯮", "鯯", "鯰", "鯱", "鯲", "鯳", "鯴", "鯵", "鯶", "鯷", "鯸",
     "鯹", "鯺", "鯻", "鯼", "鯽", "鯾", "鯿", "鲀", "鲁", "鲂", "鲃", "鲄", "鲅", "鲆", "鲇", "鲈",
     "鲉", "鲊", "鲋", "鲌", "鲍", "鲎", "鲏", "鲐", "鲑", "鲒", "鲓", "鲔", "鲕", "鲖", "鲗", "鲘",
     "鲙", "鲚", "鲛", "鲜", "鲝", "鲞", "鲟", "鲠", "鲡", "鲢", "鲣", "鲤", "鲥", "鲦", "鲧", "鲨",
     "鲩", "鲪", "鲫", "鲬", "鲭", "鲮", "鲯", "鲰", "鲱", "鲲", "鲳", "鲴", "鲵", "鲶", "鲷", "鲸",
     "鲹", "鲺", "鲻", "鲼", "鲽", "鲾", "鲿", "鳀", "鳁", "鳂", "鳃", "鳄", "鳅", "鳆", "鳇", "鳈",
     "鳉", "鳊", "鳋", "鳌", "鳍", "鳎", "鳏", "鳐", "鳑", "鳒", "鳓", "鳔", "鳕", "鳖", "鳗", "鳘",
     "鳙", "鳚", "鳛", "鳜", "鳝", "鳞", "鳟", "鳠", "鳡", "鳢", "鳣", "鳤", "鳥", "鳦", "鳧", "鳨",
     "鳩", "鳪", "鳫", "鳬", "鳭", "鳮", "鳯", "鳰", "鳱", "鳲", "鳳", "鳴", "鳵", "鳶", "鳷", "鳸",
     "鳹", "鳺", "鳻", "鳼", "鳽", "鳾", "鳿", "鶀", "鶁", "鶂", "鶃", "鶄", "鶅", "鶆", "鶇", "鶈",
     "鶉", "鶊", "鶋", "鶌", "鶍", "鶎", "鶏", "鶐", "鶑", "鶒", "鶓", "鶔", "鶕", "鶖", "鶗", "鶘",
     "鶙", "鶚", "鶛", "鶜", "鶝", "鶞", "鶟", "鶠", "鶡", "鶢", "鶣", "鶤", "鶥", "鶦", "鶧", "鶨",
     "鶩", "鶪", "鶫", "鶬", "鶭", "鶮", "鶯", "鶰", "鶱", "鶲", "鶳", "鶴", "鶵", "鶶", "鶷", "鶸",
     "鶹", "鶺", "鶻", "鶼", "鶽", "鶾", "鶿", "鷀", "鷁", "鷂", "鷃", "鷄", "鷅", "鷆", "鷇", "鷈",
     "鷉", "鷊", "鷋", "鷌", "鷍", "鷎", "鷏", "鷐", "鷑", "鷒", "鷓", "鷔", "鷕", "鷖", "鷗", "鷘",
     "鷙", "鷚", "鷛", "鷜", "鷝", "鷞", "鷟", "鷠", "鷡", "鷢", "鷣", "鷤", "鷥", "鷦", "鷧", "鷨",
     "鷩", "鷪", "鷫", "鷬", "鷭", "鷮", "鷯", "鷰", "鷱", "鷲", "鷳", "鷴", "鷵", "鷶", "鷷", "鷸",
     "鷹", "鷺", "鷻", "鷼", "鷽", "鷾", "鷿", "麀", "麁", "麂", "麃", "麄", "麅", "麆", "麇", "麈",
     "麉", "麊", "麋", "麌", "麍", "麎", "麏", "麐", "麑", "麒", "麓", "麔", "麕", "麖", "麗", "麘",
     "麙", "麚", "麛", "麜", "麝", "麞", "麟", "麠", "麡", "麢", "麣", "麤", "麥", "麦", "麧", "麨",
     "麩", "麪", "麫", "麬", "麭", "麮", "麯", "麰", "麱", "麲", "麳", "麴", "麵", "麶", "麷", "麸",
     "麹", "麺", "麻", "麼", "麽", "麾", "麿", "黀", "黁", "黂", "黃", "黄", "黅", "黆", "黇", "黈",
     "黉", "黊", "黋", "黌", "黍", "黎", "黏", "黐", "黑", "黒", "黓", "黔", "黕", "黖", "黗", "默",
     "黙", "黚", "黛", "黜", "黝", "點", "黟", "黠", "黡", "黢", "黣", "黤", "黥", "黦", "黧", "黨",
     "黩", "黪", "黫", "黬", "黭", "黮", "黯", "黰", "黱", "黲", "黳", "黴", "黵", "黶", "黷", "黸",
     "黹", "黺", "黻", "黼", "黽", "黾", "黿", "龀", "龁", "龂", "龃", "龄", "龅", "龆", "龇", "龈",
     "龉", "龊", "龋", "龌", "龍", "龎", "龏", "龐", "龑", "龒", "龓", "龔", "龕", "龖", "龗", "龘",
     "龙", "龚", "龛", "龜", "龝", "龞", "龟", "龠", "龡", "龢", "龣", "龤", "龥", "龦", "龧", "龨",
     "龩", "龪", "龫", "龬", "龭", "龮", "龯", "龰", "龱", "龲", "龳", "龴", "龵", "龶", "龷", "龸",
     "龹", "龺", "龻", "龼", "龽", "龾", "龿", "鿀", "鿁", "鿂", "鿃", "鿄", "鿅", "鿆", "鿇", "鿈",
     "鿉", "鿊", "鿋", "鿌", "鿍", "鿎", "鿏", "鿐", "鿑", "鿒", "鿓", "鿔", "鿕", "鿖", "鿗", "鿘",
     "鿙", "鿚", "鿛", "鿜", "鿝", "鿞", "鿟", "鿠", "鿡", "鿢", "鿣", "鿤", "鿥", "鿦", "鿧", "鿨",
     "鿩", "鿪", "鿫", "鿬", "鿭", "鿮", "鿯", "鿰", "鿱", "鿲", "鿳", "鿴", "鿵", "鿶", "鿷", "鿸",
     "鿹", "鿺", "鿻", "鿼", "鿽", "鿾", "鿿", "ꂀ", "ꂁ", "ꂂ", "ꂃ", "ꂄ", "ꂅ", "ꂆ", "ꂇ", "ꂈ",
     "ꂉ", "ꂊ", "ꂋ", "ꂌ", "ꂍ", "ꂎ", "ꂏ", "ꂐ", "ꂑ", "ꂒ", "ꂓ", "ꂔ", "ꂕ", "ꂖ", "ꂗ", "ꂘ",
     "ꂙ", "ꂚ", "ꂛ", "ꂜ", "ꂝ", "ꂞ", "ꂟ", "ꂠ", "ꂡ", "ꂢ", "ꂣ", "ꂤ", "ꂥ", "ꂦ", "ꂧ", "ꂨ",
     "ꂩ", "ꂪ", "ꂫ", "ꂬ", "ꂭ", "ꂮ", "ꂯ", "ꂰ", "ꂱ", "ꂲ", "ꂳ", "ꂴ", "ꂵ", "ꂶ", "ꂷ", "ꂸ",
     "ꂹ", "ꂺ", "ꂻ", "ꂼ", "ꂽ", "ꂾ", "ꂿ", "ꃀ", "ꃁ", "ꃂ", "ꃃ", "ꃄ", "ꃅ", "ꃆ", "ꃇ", "ꃈ",
     "ꃉ", "ꃊ", "ꃋ", "ꃌ", "ꃍ", "ꃎ", "ꃏ", "ꃐ", "ꃑ", "ꃒ", "ꃓ", "ꃔ", "ꃕ", "ꃖ", "ꃗ", "ꃘ",
     "ꃙ", "ꃚ", "ꃛ", "ꃜ", "ꃝ", "ꃞ", "ꃟ", "ꃠ", "ꃡ", "ꃢ", "ꃣ", "ꃤ", "ꃥ", "ꃦ", "ꃧ", "ꃨ",
     "ꃩ", "ꃪ", "ꃫ", "ꃬ", "ꃭ", "ꃮ", "ꃯ", "ꃰ", "ꃱ", "ꃲ", "ꃳ", "ꃴ", "ꃵ", "ꃶ", "ꃷ", "ꃸ",
     "ꃹ", "ꃺ", "ꃻ", "ꃼ", "ꃽ", "ꃾ", "ꃿ", "ꆀ", "ꆁ", "ꆂ", "ꆃ", "ꆄ", "ꆅ", "ꆆ", "ꆇ", "ꆈ",
     "ꆉ", "ꆊ", "ꆋ", "ꆌ", "ꆍ", "ꆎ", "ꆏ", "ꆐ", "ꆑ", "ꆒ", "ꆓ", "ꆔ", "ꆕ", "ꆖ", "ꆗ", "ꆘ",
     "ꆙ", "ꆚ", "ꆛ", "ꆜ", "ꆝ", "ꆞ", "ꆟ", "ꆠ", "ꆡ", "ꆢ", "ꆣ", "ꆤ", "ꆥ", "ꆦ", "ꆧ", "ꆨ",
     "ꆩ", "ꆪ", "ꆫ", "ꆬ", "ꆭ", "ꆮ", "ꆯ", "ꆰ", "ꆱ", "ꆲ", "ꆳ", "ꆴ", "ꆵ", "ꆶ", "ꆷ", "ꆸ",
     "ꆹ", "ꆺ", "ꆻ", "ꆼ", "ꆽ", "ꆾ", "ꆿ", "ꇀ", "ꇁ", "ꇂ", "ꇃ", "ꇄ", "ꇅ", "ꇆ", "ꇇ", "ꇈ",
     "ꇉ", "ꇊ", "ꇋ", "ꇌ", "ꇍ", "ꇎ", "ꇏ", "ꇐ", "ꇑ", "ꇒ", "ꇓ", "ꇔ", "ꇕ", "ꇖ", "ꇗ", "ꇘ",
     "ꇙ", "ꇚ", "ꇛ", "ꇜ", "ꇝ", "ꇞ", "ꇟ", "ꇠ", "ꇡ", "ꇢ", "ꇣ", "ꇤ", "ꇥ", "ꇦ", "ꇧ", "ꇨ",
     "ꇩ", "ꇪ", "ꇫ", "ꇬ", "ꇭ", "ꇮ", "ꇯ", "ꇰ", "ꇱ", "ꇲ", "ꇳ", "ꇴ", "ꇵ", "ꇶ", "ꇷ", "ꇸ",
     "ꇹ", "ꇺ", "ꇻ", "ꇼ", "ꇽ", "ꇾ", "ꇿ", "ꊀ", "ꊁ", "ꊂ", "ꊃ", "ꊄ", "ꊅ", "ꊆ", "ꊇ", "ꊈ",
     "ꊉ", "ꊊ", "ꊋ", "ꊌ", "ꊍ", "ꊎ", "ꊏ", "ꊐ", "ꊑ", "ꊒ", "ꊓ", "ꊔ", "ꊕ", "ꊖ", "ꊗ", "ꊘ",
     "ꊙ", "ꊚ", "ꊛ", "ꊜ", "ꊝ", "ꊞ", "ꊟ", "ꊠ", "ꊡ", "ꊢ", "ꊣ", "ꊤ", "ꊥ", "ꊦ", "ꊧ", "ꊨ",
     "ꊩ", "ꊪ", "ꊫ", "ꊬ", "ꊭ", "ꊮ", "ꊯ", "ꊰ", "ꊱ", "ꊲ", "ꊳ", "ꊴ", "ꊵ", "ꊶ", "ꊷ", "ꊸ",
     "ꊹ", "ꊺ", "ꊻ", "ꊼ", "ꊽ", "ꊾ", "ꊿ", "ꋀ", "ꋁ", "ꋂ", "ꋃ", "ꋄ", "ꋅ", "ꋆ", "ꋇ", "ꋈ",
     "ꋉ", "ꋊ", "ꋋ", "ꋌ", "ꋍ", "ꋎ", "ꋏ", "ꋐ", "ꋑ", "ꋒ", "ꋓ", "ꋔ", "ꋕ", "ꋖ", "ꋗ", "ꋘ",
     "ꋙ", "ꋚ", "ꋛ", "ꋜ", "ꋝ", "ꋞ", "ꋟ", "ꋠ", "ꋡ", "ꋢ", "ꋣ", "ꋤ", "ꋥ", "ꋦ", "ꋧ", "ꋨ",
     "ꋩ", "ꋪ", "ꋫ", "ꋬ", "ꋭ", "ꋮ", "ꋯ", "ꋰ", "ꋱ", "ꋲ", "ꋳ", "ꋴ", "ꋵ", "ꋶ", "ꋷ", "ꋸ",
     "ꋹ", "ꋺ", "ꋻ", "ꋼ", "ꋽ", "ꋾ", "ꋿ", "ꎀ", "ꎁ", "ꎂ", "ꎃ", "ꎄ", "ꎅ", "ꎆ", "ꎇ", "ꎈ",
     "ꎉ", "ꎊ", "ꎋ", "ꎌ", "ꎍ", "ꎎ", "ꎏ", "ꎐ", "ꎑ", "ꎒ", "ꎓ", "ꎔ", "ꎕ", "ꎖ", "ꎗ", "ꎘ",
     "ꎙ", "ꎚ", "ꎛ", "ꎜ", "ꎝ", "ꎞ", "ꎟ", "ꎠ", "ꎡ", "ꎢ", "ꎣ", "ꎤ", "ꎥ", "ꎦ", "ꎧ", "ꎨ",
     "ꎩ", "ꎪ", "ꎫ", "ꎬ", "ꎭ", "ꎮ", "ꎯ", "ꎰ", "ꎱ", "ꎲ", "ꎳ", "ꎴ", "ꎵ", "ꎶ", "ꎷ", "ꎸ",
     "ꎹ", "ꎺ", "ꎻ", "ꎼ", "ꎽ", "ꎾ", "ꎿ", "ꏀ", "ꏁ", "ꏂ", "ꏃ", "ꏄ", "ꏅ", "ꏆ", "ꏇ", "ꏈ",
     "ꏉ", "ꏊ", "ꏋ", "ꏌ", "ꏍ", "ꏎ", "ꏏ", "ꏐ", "ꏑ", "ꏒ", "ꏓ", "ꏔ", "ꏕ", "ꏖ", "ꏗ", "ꏘ",
     "ꏙ", "ꏚ", "ꏛ", "ꏜ", "ꏝ", "ꏞ", "ꏟ", "ꏠ", "ꏡ", "ꏢ", "ꏣ", "ꏤ", "ꏥ", "ꏦ", "ꏧ", "ꏨ",
     "ꏩ", "ꏪ", "ꏫ", "ꏬ", "ꏭ", "ꏮ", "ꏯ", "ꏰ", "ꏱ", "ꏲ", "ꏳ", "ꏴ", "ꏵ", "ꏶ", "ꏷ", "ꏸ",
     "ꏹ", "ꏺ", "ꏻ", "ꏼ", "ꏽ", "ꏾ", "ꏿ", "ꒀ", "ꒁ", "ꒂ", "ꒃ", "ꒄ", "ꒅ", "ꒆ", "ꒇ", "ꒈ",
     "ꒉ", "ꒊ", "ꒋ", "ꒌ", "ꓐ", "ꓑ", "ꓒ", "ꓓ", "ꓔ", "ꓕ", "ꓖ", "ꓗ", "ꓘ", "ꓙ", "ꓚ", "ꓛ",
     "ꓜ", "ꓝ", "ꓞ", "ꓟ", "ꓠ", "ꓡ", "ꓢ", "ꓣ", "ꓤ", "ꓥ", "ꓦ", "ꓧ", "ꓨ", "ꓩ", "ꓪ", "ꓫ",
     "ꓬ", "ꓭ", "ꓮ", "ꓯ", "ꓰ", "ꓱ", "ꓲ", "ꓳ", "ꓴ", "ꓵ", "ꓶ", "ꓷ", "ꓸ", "ꓹ", "ꓺ", "ꓻ",
     "ꓼ", "ꓽ", "ꖀ", "ꖁ", "ꖂ", "ꖃ", "ꖄ", "ꖅ", "ꖆ", "ꖇ", "ꖈ", "ꖉ", "ꖊ", "ꖋ", "ꖌ", "ꖍ",
     "ꖎ", "ꖏ", "ꖐ", "ꖑ", "ꖒ", "ꖓ", "ꖔ", "ꖕ", "ꖖ", "ꖗ", "ꖘ", "ꖙ", "ꖚ", "ꖛ", "ꖜ", "ꖝ",
     "ꖞ", "ꖟ", "ꖠ", "ꖡ", "ꖢ", "ꖣ", "ꖤ", "ꖥ", "ꖦ", "ꖧ", "ꖨ", "ꖩ", "ꖪ", "ꖫ", "ꖬ", "ꖭ",
     "ꖮ", "ꖯ", "ꖰ", "ꖱ", "ꖲ", "ꖳ", "ꖴ", "ꖵ", "ꖶ", "ꖷ", "ꖸ", "ꖹ", "ꖺ", "ꖻ", "ꖼ", "ꖽ",
     "ꖾ", "ꖿ", "ꗀ", "ꗁ", "ꗂ", "ꗃ", "ꗄ", "ꗅ", "ꗆ", "ꗇ", "ꗈ", "ꗉ", "ꗊ", "ꗋ", "ꗌ", "ꗍ",
     "ꗎ", "ꗏ", "ꗐ", "ꗑ", "ꗒ", "ꗓ", "ꗔ", "ꗕ", "ꗖ", "ꗗ", "ꗘ", "ꗙ", "ꗚ", "ꗛ", "ꗜ", "ꗝ",
     "ꗞ", "ꗟ", "ꗠ", "ꗡ", "ꗢ", "ꗣ", "ꗤ", "ꗥ", "ꗦ", "ꗧ", "ꗨ", "ꗩ", "ꗪ", "ꗫ", "ꗬ", "ꗭ",
     "ꗮ", "ꗯ", "ꗰ", "ꗱ", "ꗲ", "ꗳ", "ꗴ", "ꗵ", "ꗶ", "ꗷ", "ꗸ", "ꗹ", "ꗺ", "ꗻ", "ꗼ", "ꗽ",
     "ꗾ", "ꗿ", "Ꚁ", "ꚁ", "Ꚃ", "ꚃ", "Ꚅ", "ꚅ", "Ꚇ", "ꚇ", "Ꚉ", "ꚉ", "Ꚋ", "ꚋ", "Ꚍ", "ꚍ",
     "Ꚏ", "ꚏ", "Ꚑ", "ꚑ", "Ꚓ", "ꚓ", "Ꚕ", "ꚕ", "Ꚗ", "ꚗ", "Ꚙ", "ꚙ", "Ꚛ", "ꚛ", "ꚜ", "ꚝ",
     "ꚠ", "ꚡ", "ꚢ", "ꚣ", "ꚤ", "ꚥ", "ꚦ", "ꚧ", "ꚨ", "ꚩ", "ꚪ", "ꚫ", "ꚬ", "ꚭ", "ꚮ", "ꚯ",
     "ꚰ", "ꚱ", "ꚲ", "ꚳ", "ꚴ", "ꚵ", "ꚶ", "ꚷ", "ꚸ", "ꚹ", "ꚺ", "ꚻ", "ꚼ", "ꚽ", "ꚾ", "ꚿ",
     "ꛀ", "ꛁ", "ꛂ", "ꛃ", "ꛄ", "ꛅ", "ꛆ", "ꛇ", "ꛈ", "ꛉ", "ꛊ", "ꛋ", "ꛌ", "ꛍ", "ꛎ", "ꛏ",
     "ꛐ", "ꛑ", "ꛒ", "ꛓ", "ꛔ", "ꛕ", "ꛖ", "ꛗ", "ꛘ", "ꛙ", "ꛚ", "ꛛ", "ꛜ", "ꛝ", "ꛞ", "ꛟ",
     "ꛠ", "ꛡ", "ꛢ", "ꛣ", "ꛤ", "ꛥ", "Ꞁ", "ꞁ", "Ꞃ", "ꞃ", "Ꞅ", "ꞅ", "Ꞇ", "ꞇ", "ꞈ", "Ꞌ",
     "ꞌ", "Ɥ", "ꞎ", "ꞏ", "Ꞑ", "ꞑ", "Ꞓ", "ꞓ", "ꞔ", "ꞕ", "Ꞗ", "ꞗ", "Ꞙ", "ꞙ", "Ꞛ", "ꞛ",
     "Ꞝ", "ꞝ", "Ꞟ", "ꞟ", "Ꞡ", "ꞡ", "Ꞣ", "ꞣ", "Ꞥ", "ꞥ", "Ꞧ", "ꞧ", "Ꞩ", "ꞩ", "Ɦ", "Ɜ",
     "Ɡ", "Ɬ", "Ɪ", "ꞯ", "Ʞ", "Ʇ", "Ʝ", "Ꭓ", "Ꞵ", "ꞵ", "Ꞷ", "ꞷ", "Ꞹ", "ꞹ", "Ꞻ", "ꞻ",
     "Ꞽ", "ꞽ", "Ꞿ", "ꞿ", "Ꟁ", "ꟁ", "Ꟃ", "ꟃ", "Ꞔ", "Ʂ", "Ᶎ", "Ꟈ", "ꟈ", "Ꟊ", "ꟊ", "Ꟑ",
     "ꟑ", "ꟓ", "ꟕ", "Ꟗ", "ꟗ", "Ꟙ", "ꟙ", "ꟲ", "ꟳ", "ꟴ", "Ꟶ", "ꟶ", "ꟷ", "ꟸ", "ꟹ", "ꟺ",
     "ꟻ", "ꟼ", "ꟽ", "ꟾ", "ꟿ", "ꢂ", "ꢃ", "ꢄ", "ꢅ", "ꢆ", "ꢇ", "ꢈ", "ꢉ", "ꢊ", "ꢋ", "ꢌ",
     "ꢍ", "ꢎ", "ꢏ", "ꢐ", "ꢑ", "ꢒ", "ꢓ", "ꢔ", "ꢕ", "ꢖ", "ꢗ", "ꢘ", "ꢙ", "ꢚ", "ꢛ", "ꢜ",
     "ꢝ", "ꢞ", "ꢟ", "ꢠ", "ꢡ", "ꢢ", "ꢣ", "ꢤ", "ꢥ", "ꢦ", "ꢧ", "ꢨ", "ꢩ", "ꢪ", "ꢫ", "ꢬ",
     "ꢭ", "ꢮ", "ꢯ", "ꢰ", "ꢱ", "ꢲ", "ꢳ", "ꣲ", "ꣳ", "ꣴ", "ꣵ", "ꣶ", "ꣷ", "ꣻ", "ꣽ", "ꣾ",
     "ꦄ", "ꦅ", "ꦆ", "ꦇ", "ꦈ", "ꦉ", "ꦊ", "ꦋ", "ꦌ", "ꦍ", "ꦎ", "ꦏ", "ꦐ", "ꦑ", "ꦒ", "ꦓ",
     "ꦔ", "ꦕ", "ꦖ", "ꦗ", "ꦘ", "ꦙ", "ꦚ", "ꦛ", "ꦜ", "ꦝ", "ꦞ", "ꦟ", "ꦠ", "ꦡ", "ꦢ", "ꦣ",
     "ꦤ", "ꦥ", "ꦦ", "ꦧ", "ꦨ", "ꦩ", "ꦪ", "ꦫ", "ꦬ", "ꦭ", "ꦮ", "ꦯ", "ꦰ", "ꦱ", "ꦲ", "ꧏ",
     "ꧠ", "ꧡ", "ꧢ", "ꧣ", "ꧤ", "ꧦ", "ꧧ", "ꧨ", "ꧩ", "ꧪ", "ꧫ", "ꧬ", "ꧭ", "ꧮ", "ꧯ", "ꧺ",
     "ꧻ", "ꧼ", "ꧽ", "ꧾ", "ꪀ", "ꪁ", "ꪂ", "ꪃ", "ꪄ", "ꪅ", "ꪆ", "ꪇ", "ꪈ", "ꪉ", "ꪊ", "ꪋ",
     "ꪌ", "ꪍ", "ꪎ", "ꪏ", "ꪐ", "ꪑ", "ꪒ", "ꪓ", "ꪔ", "ꪕ", "ꪖ", "ꪗ", "ꪘ", "ꪙ", "ꪚ", "ꪛ",
     "ꪜ", "ꪝ", "ꪞ", "ꪟ", "ꪠ", "ꪡ", "ꪢ", "ꪣ", "ꪤ", "ꪥ", "ꪦ", "ꪧ", "ꪨ", "ꪩ", "ꪪ", "ꪫ",
     "ꪬ", "ꪭ", "ꪮ", "ꪯ", "ꪱ", "ꪵ", "ꪶ", "ꪹ", "ꪺ", "ꪻ", "ꪼ", "ꪽ", "ꫀ", "ꫂ", "ꫛ", "ꫜ",
     "ꫝ", "ꫠ", "ꫡ", "ꫢ", "ꫣ", "ꫤ", "ꫥ", "ꫦ", "ꫧ", "ꫨ", "ꫩ", "ꫪ", "ꫲ", "ꫳ", "ꫴ", "ꮀ",
     "ꮁ", "ꮂ", "ꮃ", "ꮄ", "ꮅ", "ꮆ", "ꮇ", "ꮈ", "ꮉ", "ꮊ", "ꮋ", "ꮌ", "ꮍ", "ꮎ", "ꮏ", "ꮐ",
     "ꮑ", "ꮒ", "ꮓ", "ꮔ", "ꮕ", "ꮖ", "ꮗ", "ꮘ", "ꮙ", "ꮚ", "ꮛ", "ꮜ", "ꮝ", "ꮞ", "ꮟ", "ꮠ",
     "ꮡ", "ꮢ", "ꮣ", "ꮤ", "ꮥ", "ꮦ", "ꮧ", "ꮨ", "ꮩ", "ꮪ", "ꮫ", "ꮬ", "ꮭ", "ꮮ", "ꮯ", "ꮰ",
     "ꮱ", "ꮲ", "ꮳ", "ꮴ", "ꮵ", "ꮶ", "ꮷ", "ꮸ", "ꮹ", "ꮺ", "ꮻ", "ꮼ", "ꮽ", "ꮾ", "ꮿ", "ꯀ",
     "ꯁ", "ꯂ", "ꯃ", "ꯄ", "ꯅ", "ꯆ", "ꯇ", "ꯈ", "ꯉ", "ꯊ", "ꯋ", "ꯌ", "ꯍ", "ꯎ", "ꯏ", "ꯐ",
     "ꯑ", "ꯒ", "ꯓ", "ꯔ", "ꯕ", "ꯖ", "ꯗ", "ꯘ", "ꯙ", "ꯚ", "ꯛ", "ꯜ", "ꯝ", "ꯞ", "ꯟ", "ꯠ",
     "ꯡ", "ꯢ", "검", "겁", "겂", "것", "겄", "겅", "겆", "겇", "겈", "겉", "겊", "겋", "게", "겍",
     "겎", "겏", "겐", "겑", "겒", "겓", "겔", "겕", "겖", "겗", "겘", "겙", "겚", "겛", "겜", "겝",
     "겞", "겟", "겠", "겡", "겢", "겣", "겤", "겥", "겦", "겧", "겨", "격", "겪", "겫", "견", "겭",
     "겮", "겯", "결", "겱", "겲", "겳", "겴", "겵", "겶", "겷", "겸", "겹", "겺", "겻", "겼", "경",
     "겾", "겿", "곀", "곁", "곂", "곃", "계", "곅", "곆", "곇", "곈", "곉", "곊", "곋", "곌", "곍",
     "곎", "곏", "곐", "곑", "곒", "곓", "곔", "곕", "곖", "곗", "곘", "곙", "곚", "곛", "곜", "곝",
     "곞", "곟", "고", "곡", "곢", "곣", "곤", "곥", "곦", "곧", "골", "곩", "곪", "곫", "곬", "곭",
     "곮", "곯", "곰", "곱", "곲", "곳", "곴", "공", "곶", "곷", "곸", "곹", "곺", "곻", "과", "곽",
     "곾", "곿", "궀", "궁", "궂", "궃", "궄", "궅", "궆", "궇", "궈", "궉", "궊", "궋", "권", "궍",
     "궎", "궏", "궐", "궑", "궒", "궓", "궔", "궕", "궖", "궗", "궘", "궙", "궚", "궛", "궜", "궝",
     "궞", "궟", "궠", "궡", "궢", "궣", "궤", "궥", "궦", "궧", "궨", "궩", "궪", "궫", "궬", "궭",
     "궮", "궯", "궰", "궱", "궲", "궳", "궴", "궵", "궶", "궷", "궸", "궹", "궺", "궻", "궼", "궽",
     "궾", "궿", "귀", "귁", "귂", "귃", "귄", "귅", "귆", "귇", "귈", "귉", "귊", "귋", "귌", "귍",
     "귎", "귏", "귐", "귑", "귒", "귓", "귔", "귕", "귖", "귗", "귘", "귙", "귚", "귛", "규", "귝",
     "귞", "귟", "균", "귡", "귢", "귣", "귤", "귥", "귦", "귧", "귨", "귩", "귪", "귫", "귬", "귭",
     "귮", "귯", "귰", "귱", "귲", "귳", "귴", "귵", "귶", "귷", "그", "극", "귺", "귻", "근", "귽",
     "귾", "귿", "꺀", "꺁", "꺂", "꺃", "꺄", "꺅", "꺆", "꺇", "꺈", "꺉", "꺊", "꺋", "꺌", "꺍",
     "꺎", "꺏", "꺐", "꺑", "꺒", "꺓", "꺔", "꺕", "꺖", "꺗", "꺘", "꺙", "꺚", "꺛", "꺜", "꺝",
     "꺞", "꺟", "꺠", "꺡", "꺢", "꺣", "꺤", "꺥", "꺦", "꺧", "꺨", "꺩", "꺪", "꺫", "꺬", "꺭",
     "꺮", "꺯", "꺰", "꺱", "꺲", "꺳", "꺴", "꺵", "꺶", "꺷", "꺸", "꺹", "꺺", "꺻", "꺼", "꺽",
     "꺾", "꺿", "껀", "껁", "껂", "껃", "껄", "껅", "껆", "껇", "껈", "껉", "껊", "껋", "껌", "껍",
     "껎", "껏", "껐", "껑", "껒", "껓", "껔", "껕", "껖", "껗", "께", "껙", "껚", "껛", "껜", "껝",
     "껞", "껟", "껠", "껡", "껢", "껣", "껤", "껥", "껦", "껧", "껨", "껩", "껪", "껫", "껬", "껭",
     "껮", "껯", "껰", "껱", "껲", "껳", "껴", "껵", "껶", "껷", "껸", "껹", "껺", "껻", "껼", "껽",
     "껾", "껿", "꾀", "꾁", "꾂", "꾃", "꾄", "꾅", "꾆", "꾇", "꾈", "꾉", "꾊", "꾋", "꾌", "꾍",
     "꾎", "꾏", "꾐", "꾑", "꾒", "꾓", "꾔", "꾕", "꾖", "꾗", "꾘", "꾙", "꾚", "꾛", "꾜", "꾝",
     "꾞", "꾟", "꾠", "꾡", "꾢", "꾣", "꾤", "꾥", "꾦", "꾧", "꾨", "꾩", "꾪", "꾫", "꾬", "꾭",
     "꾮", "꾯", "꾰", "꾱", "꾲", "꾳", "꾴", "꾵", "꾶", "꾷", "꾸", "꾹", "꾺", "꾻", "꾼", "꾽",
     "꾾", "꾿", "꿀", "꿁", "꿂", "꿃", "꿄", "꿅", "꿆", "꿇", "꿈", "꿉", "꿊", "꿋", "꿌", "꿍",
     "꿎", "꿏", "꿐", "꿑", "꿒", "꿓", "꿔", "꿕", "꿖", "꿗", "꿘", "꿙", "꿚", "꿛", "꿜", "꿝",
     "꿞", "꿟", "꿠", "꿡", "꿢", "꿣", "꿤", "꿥", "꿦", "꿧", "꿨", "꿩", "꿪", "꿫", "꿬", "꿭",
     "꿮", "꿯", "꿰", "꿱", "꿲", "꿳", "꿴", "꿵", "꿶", "꿷", "꿸", "꿹", "꿺", "꿻", "꿼", "꿽",
     "꿾", "꿿", "낀", "낁", "낂", "낃", "낄", "낅", "낆", "낇", "낈", "낉", "낊", "낋", "낌", "낍",
     "낎", "낏", "낐", "낑", "낒", "낓", "낔", "낕", "낖", "낗", "나", "낙", "낚", "낛", "난", "낝",
     "낞", "낟", "날", "낡", "낢", "낣", "낤", "낥", "낦", "낧", "남", "납", "낪", "낫", "났", "낭",
     "낮", "낯", "낰", "낱", "낲", "낳", "내", "낵", "낶", "낷", "낸", "낹", "낺", "낻", "낼", "낽",
     "낾", "낿", "냀", "냁", "냂", "냃", "냄", "냅", "냆", "냇", "냈", "냉", "냊", "냋", "냌", "냍",
     "냎", "냏", "냐", "냑", "냒", "냓", "냔", "냕", "냖", "냗", "냘", "냙", "냚", "냛", "냜", "냝",
     "냞", "냟", "냠", "냡", "냢", "냣", "냤", "냥", "냦", "냧", "냨", "냩", "냪", "냫", "냬", "냭",
     "냮", "냯", "냰", "냱", "냲", "냳", "냴", "냵", "냶", "냷", "냸", "냹", "냺", "냻", "냼", "냽",
     "냾", "냿", "놀", "놁", "놂", "놃", "놄", "놅", "놆", "놇", "놈", "놉", "놊", "놋", "놌", "농",
     "놎", "놏", "놐", "놑", "높", "놓", "놔", "놕", "놖", "놗", "놘", "놙", "놚", "놛", "놜", "놝",
     "놞", "놟", "놠", "놡", "놢", "놣", "놤", "놥", "놦", "놧", "놨", "놩", "놪", "놫", "놬", "놭",
     "놮", "놯", "놰", "놱", "놲", "놳", "놴", "놵", "놶", "놷", "놸", "놹", "놺", "놻", "놼", "놽",
     "놾", "놿", "뇀", "뇁", "뇂", "뇃", "뇄", "뇅", "뇆", "뇇", "뇈", "뇉", "뇊", "뇋", "뇌", "뇍",
     "뇎", "뇏", "뇐", "뇑", "뇒", "뇓", "뇔", "뇕", "뇖", "뇗", "뇘", "뇙", "뇚", "뇛", "뇜", "뇝",
     "뇞", "뇟", "뇠", "뇡", "뇢", "뇣", "뇤", "뇥", "뇦", "뇧", "뇨", "뇩", "뇪", "뇫", "뇬", "뇭",
     "뇮", "뇯", "뇰", "뇱", "뇲", "뇳", "뇴", "뇵", "뇶", "뇷", "뇸", "뇹", "뇺", "뇻", "뇼", "뇽",
     "뇾", "뇿", "늀", "늁", "늂", "늃", "늄", "늅", "늆", "늇", "늈", "늉", "늊", "늋", "늌", "늍",
     "늎", "늏", "느", "늑", "늒", "늓", "는", "늕", "늖", "늗", "늘", "늙", "늚", "늛", "늜", "늝",
     "늞", "늟", "늠", "늡", "늢", "늣", "늤", "능", "늦", "늧", "늨", "늩", "늪", "늫", "늬", "늭",
     "늮", "늯", "늰", "늱", "늲", "늳", "늴", "늵", "늶", "늷", "늸", "늹", "늺", "늻", "늼", "늽",
     "늾", "늿", "닀", "닁", "닂", "닃", "닄", "닅", "닆", "닇", "니", "닉", "닊", "닋", "닌", "닍",
     "닎", "닏", "닐", "닑", "닒", "닓", "닔", "닕", "닖", "닗", "님", "닙", "닚", "닛", "닜", "닝",
     "닞", "닟", "닠", "닡", "닢", "닣", "다", "닥", "닦", "닧", "단", "닩", "닪", "닫", "달", "닭",
     "닮", "닯", "닰", "닱", "닲", "닳", "담", "답", "닶", "닷", "닸", "당", "닺", "닻", "닼", "닽",
     "닾", "닿", "뎀", "뎁", "뎂", "뎃", "뎄", "뎅", "뎆", "뎇", "뎈", "뎉", "뎊", "뎋", "뎌", "뎍",
     "뎎", "뎏", "뎐", "뎑", "뎒", "뎓", "뎔", "뎕", "뎖", "뎗", "뎘", "뎙", "뎚", "뎛", "뎜", "뎝",
     "뎞", "뎟", "뎠", "뎡", "뎢", "뎣", "뎤", "뎥", "뎦", "뎧", "뎨", "뎩", "뎪", "뎫", "뎬", "뎭",
     "뎮", "뎯", "뎰", "뎱", "뎲", "뎳", "뎴", "뎵", "뎶", "뎷", "뎸", "뎹", "뎺", "뎻", "뎼", "뎽",
     "뎾", "뎿", "돀", "돁", "돂", "돃", "도", "독", "돆", "돇", "돈", "돉", "돊", "돋", "돌", "돍",
     "돎", "돏", "돐", "돑", "돒", "돓", "돔", "돕", "돖", "돗", "돘", "동", "돚", "돛", "돜", "돝",
     "돞", "돟", "돠", "돡", "돢", "돣", "돤", "돥", "돦", "돧", "돨", "돩", "돪", "돫", "돬", "돭",
     "돮", "돯", "돰", "돱", "돲", "돳", "돴", "돵", "돶", "돷", "돸", "돹", "돺", "돻", "돼", "돽",
     "돾", "돿", "뒀", "뒁", "뒂", "뒃", "뒄", "뒅", "뒆", "뒇", "뒈", "뒉", "뒊", "뒋", "뒌", "뒍",
     "뒎", "뒏", "뒐", "뒑", "뒒", "뒓", "뒔", "뒕", "뒖", "뒗", "뒘", "뒙", "뒚", "뒛", "뒜", "뒝",
     "뒞", "뒟", "뒠", "뒡", "뒢", "뒣", "뒤", "뒥", "뒦", "뒧", "뒨", "뒩", "뒪", "뒫", "뒬", "뒭",
     "뒮", "뒯", "뒰", "뒱", "뒲", "뒳", "뒴", "뒵", "뒶", "뒷", "뒸", "뒹", "뒺", "뒻", "뒼", "뒽",
     "뒾", "뒿", "듀", "듁", "듂", "듃", "듄", "듅", "듆", "듇", "듈", "듉", "듊", "듋", "듌", "듍",
     "듎", "듏", "듐", "듑", "듒", "듓", "듔", "듕", "듖", "듗", "듘", "듙", "듚", "듛", "드", "득",
     "듞", "듟", "든", "듡", "듢", "듣", "들", "듥", "듦", "듧", "듨", "듩", "듪", "듫", "듬", "듭",
     "듮", "듯", "듰", "등", "듲", "듳", "듴", "듵", "듶", "듷", "듸", "듹", "듺", "듻", "듼", "듽",
     "듾", "듿", "떀", "떁", "떂", "떃", "떄", "떅", "떆", "떇", "떈", "떉", "떊", "떋", "떌", "떍",
     "떎", "떏", "떐", "떑", "떒", "떓", "떔", "떕", "떖", "떗", "떘", "떙", "떚", "떛", "떜", "떝",
     "떞", "떟", "떠", "떡", "떢", "떣", "떤", "떥", "떦", "떧", "떨", "떩", "떪", "떫", "떬", "떭",
     "떮", "떯", "떰", "떱", "떲", "떳", "떴", "떵", "떶", "떷", "떸", "떹", "떺", "떻", "떼", "떽",
     "떾", "떿", "뗀", "뗁", "뗂", "뗃", "뗄", "뗅", "뗆", "뗇", "뗈", "뗉", "뗊", "뗋", "뗌", "뗍",
     "뗎", "뗏", "뗐", "뗑", "뗒", "뗓", "뗔", "뗕", "뗖", "뗗", "뗘", "뗙", "뗚", "뗛", "뗜", "뗝",
     "뗞", "뗟", "뗠", "뗡", "뗢", "뗣", "뗤", "뗥", "뗦", "뗧", "뗨", "뗩", "뗪", "뗫", "뗬", "뗭",
     "뗮", "뗯", "뗰", "뗱", "뗲", "뗳", "뗴", "뗵", "뗶", "뗷", "뗸", "뗹", "뗺", "뗻", "뗼", "뗽",
     "뗾", "뗿", "뚀", "뚁", "뚂", "뚃", "뚄", "뚅", "뚆", "뚇", "뚈", "뚉", "뚊", "뚋", "뚌", "뚍",
     "뚎", "뚏", "뚐", "뚑", "뚒", "뚓", "뚔", "뚕", "뚖", "뚗", "뚘", "뚙", "뚚", "뚛", "뚜", "뚝",
     "뚞", "뚟", "뚠", "뚡", "뚢", "뚣", "뚤", "뚥", "뚦", "뚧", "뚨", "뚩", "뚪", "뚫", "뚬", "뚭",
     "뚮", "뚯", "뚰", "뚱", "뚲", "뚳", "뚴", "뚵", "뚶", "뚷", "뚸", "뚹", "뚺", "뚻", "뚼", "뚽",
     "뚾", "뚿", "뛀", "뛁", "뛂", "뛃", "뛄", "뛅", "뛆", "뛇", "뛈", "뛉", "뛊", "뛋", "뛌", "뛍",
     "뛎", "뛏", "뛐", "뛑", "뛒", "뛓", "뛔", "뛕", "뛖", "뛗", "뛘", "뛙", "뛚", "뛛", "뛜", "뛝",
     "뛞", "뛟", "뛠", "뛡", "뛢", "뛣", "뛤", "뛥", "뛦", "뛧", "뛨", "뛩", "뛪", "뛫", "뛬", "뛭",
     "뛮", "뛯", "뛰", "뛱", "뛲", "뛳", "뛴", "뛵", "뛶", "뛷", "뛸", "뛹", "뛺", "뛻", "뛼", "뛽",
     "뛾", "뛿", "란", "랁", "랂", "랃", "랄", "랅", "랆", "랇", "랈", "랉", "랊", "랋", "람", "랍",
     "랎", "랏", "랐", "랑", "랒", "랓", "랔", "랕", "랖", "랗", "래", "랙", "랚", "랛", "랜", "랝",
     "랞", "랟", "랠", "랡", "랢", "랣", "랤", "랥", "랦", "랧", "램", "랩", "랪", "랫", "랬", "랭",
     "랮", "랯", "랰", "랱", "랲", "랳", "랴", "략", "랶", "랷", "랸", "랹", "랺", "랻", "랼", "랽",
     "랾", "랿", "럀", "럁", "럂", "럃", "럄", "럅", "럆", "럇", "럈", "량", "럊", "럋", "럌", "럍",
     "럎", "럏", "럐", "럑", "럒", "럓", "럔", "럕", "럖", "럗", "럘", "럙", "럚", "럛", "럜", "럝",
     "럞", "럟", "럠", "럡", "럢", "럣", "럤", "럥", "럦", "럧", "럨", "럩", "럪", "럫", "러", "럭",
     "럮", "럯", "런", "럱", "럲", "럳", "럴", "럵", "럶", "럷", "럸", "럹", "럺", "럻", "럼", "럽",
     "럾", "럿", "뢀", "뢁", "뢂", "뢃", "뢄", "뢅", "뢆", "뢇", "뢈", "뢉", "뢊", "뢋", "뢌", "뢍",
     "뢎", "뢏", "뢐", "뢑", "뢒", "뢓", "뢔", "뢕", "뢖", "뢗", "뢘", "뢙", "뢚", "뢛", "뢜", "뢝",
     "뢞", "뢟", "뢠", "뢡", "뢢", "뢣", "뢤", "뢥", "뢦", "뢧", "뢨", "뢩", "뢪", "뢫", "뢬", "뢭",
     "뢮", "뢯", "뢰", "뢱", "뢲", "뢳", "뢴", "뢵", "뢶", "뢷", "뢸", "뢹", "뢺", "뢻", "뢼", "뢽",
     "뢾", "뢿", "룀", "룁", "룂", "룃", "룄", "룅", "룆", "룇", "룈", "룉", "룊", "룋", "료", "룍",
     "룎", "룏", "룐", "룑", "룒", "룓", "룔", "룕", "룖", "룗", "룘", "룙", "룚", "룛", "룜", "룝",
     "룞", "룟", "룠", "룡", "룢", "룣", "룤", "룥", "룦", "룧", "루", "룩", "룪", "룫", "룬", "룭",
     "룮", "룯", "룰", "룱", "룲", "룳", "룴", "룵", "룶", "룷", "룸", "룹", "룺", "룻", "룼", "룽",
     "룾", "룿", "릀", "릁", "릂", "릃", "름", "릅", "릆", "릇", "릈", "릉", "릊", "릋", "릌", "릍",
     "릎", "릏", "릐", "릑", "릒", "릓", "릔", "릕", "릖", "릗", "릘", "릙", "릚", "릛", "릜", "릝",
     "릞", "릟", "릠", "릡", "릢", "릣", "릤", "릥", "릦", "릧", "릨", "릩", "릪", "릫", "리", "릭",
     "릮", "릯", "린", "릱", "릲", "릳", "릴", "릵", "릶", "릷", "릸", "릹", "릺", "릻", "림", "립",
     "릾", "릿", "맀", "링", "맂", "맃", "맄", "맅", "맆", "맇", "마", "막", "맊", "맋", "만", "맍",
     "많", "맏", "말", "맑", "맒", "맓", "맔", "맕", "맖", "맗", "맘", "맙", "맚", "맛", "맜", "망",
     "맞", "맟", "맠", "맡", "맢", "맣", "매", "맥", "맦", "맧", "맨", "맩", "맪", "맫", "맬", "맭",
     "맮", "맯", "맰", "맱", "맲", "맳", "맴", "맵", "맶", "맷", "맸", "맹", "맺", "맻", "맼", "맽",
     "맾", "맿", "몀", "몁", "몂", "몃", "몄", "명", "몆", "몇", "몈", "몉", "몊", "몋", "몌", "몍",
     "몎", "몏", "몐", "몑", "몒", "몓", "몔", "몕", "몖", "몗", "몘", "몙", "몚", "몛", "몜", "몝",
     "몞", "몟", "몠", "몡", "몢", "몣", "몤", "몥", "몦", "몧", "모", "목", "몪", "몫", "몬", "몭",
     "몮", "몯", "몰", "몱", "몲", "몳", "몴", "몵", "몶", "몷", "몸", "몹", "몺", "못", "몼", "몽",
     "몾", "몿", "뫀", "뫁", "뫂", "뫃", "뫄", "뫅", "뫆", "뫇", "뫈", "뫉", "뫊", "뫋", "뫌", "뫍",
     "뫎", "뫏", "뫐", "뫑", "뫒", "뫓", "뫔", "뫕", "뫖", "뫗", "뫘", "뫙", "뫚", "뫛", "뫜", "뫝",
     "뫞", "뫟", "뫠", "뫡", "뫢", "뫣", "뫤", "뫥", "뫦", "뫧", "뫨", "뫩", "뫪", "뫫", "뫬", "뫭",
     "뫮", "뫯", "뫰", "뫱", "뫲", "뫳", "뫴", "뫵", "뫶", "뫷", "뫸", "뫹", "뫺", "뫻", "뫼", "뫽",
     "뫾", "뫿", "뮀", "뮁", "뮂", "뮃", "뮄", "뮅", "뮆", "뮇", "뮈", "뮉", "뮊", "뮋", "뮌", "뮍",
     "뮎", "뮏", "뮐", "뮑", "뮒", "뮓", "뮔", "뮕", "뮖", "뮗", "뮘", "뮙", "뮚", "뮛", "뮜", "뮝",
     "뮞", "뮟", "뮠", "뮡", "뮢", "뮣", "뮤", "뮥", "뮦", "뮧", "뮨", "뮩", "뮪", "뮫", "뮬", "뮭",
     "뮮", "뮯", "뮰", "뮱", "뮲", "뮳", "뮴", "뮵", "뮶", "뮷", "뮸", "뮹", "뮺", "뮻", "뮼", "뮽",
     "뮾", "뮿", "므", "믁", "믂", "믃", "믄", "믅", "믆", "믇", "믈", "믉", "믊", "믋", "믌", "믍",
     "믎", "믏", "믐", "믑", "믒", "믓", "믔", "믕", "믖", "믗", "믘", "믙", "믚", "믛", "믜", "믝",
     "믞", "믟", "믠", "믡", "믢", "믣", "믤", "믥", "믦", "믧", "믨", "믩", "믪", "믫", "믬", "믭",
     "믮", "믯", "믰", "믱", "믲", "믳", "믴", "믵", "믶", "믷", "미", "믹", "믺", "믻", "민", "믽",
     "믾", "믿", "벀", "벁", "벂", "벃", "버", "벅", "벆", "벇", "번", "벉", "벊", "벋", "벌", "벍",
     "벎", "벏", "벐", "벑", "벒", "벓", "범", "법", "벖", "벗", "벘", "벙", "벚", "벛", "벜", "벝",
     "벞", "벟", "베", "벡", "벢", "벣", "벤", "벥", "벦", "벧", "벨", "벩", "벪", "벫", "벬", "벭",
     "벮", "벯", "벰", "벱", "벲", "벳", "벴", "벵", "벶", "벷", "벸", "벹", "벺", "벻", "벼", "벽",
     "벾", "벿", "변", "볁", "볂", "볃", "별", "볅", "볆", "볇", "볈", "볉", "볊", "볋", "볌", "볍",
     "볎", "볏", "볐", "병", "볒", "볓", "볔", "볕", "볖", "볗", "볘", "볙", "볚", "볛", "볜", "볝",
     "볞", "볟", "볠", "볡", "볢", "볣", "볤", "볥", "볦", "볧", "볨", "볩", "볪", "볫", "볬", "볭",
     "볮", "볯", "볰", "볱", "볲", "볳", "보", "복", "볶", "볷", "본", "볹", "볺", "볻", "볼", "볽",
     "볾", "볿", "부", "북", "붂", "붃", "분", "붅", "붆", "붇", "불", "붉", "붊", "붋", "붌", "붍",
     "붎", "붏", "붐", "붑", "붒", "붓", "붔", "붕", "붖", "붗", "붘", "붙", "붚", "붛", "붜", "붝",
     "붞", "붟", "붠", "붡", "붢", "붣", "붤", "붥", "붦", "붧", "붨", "붩", "붪", "붫", "붬", "붭",
     "붮", "붯", "붰", "붱", "붲", "붳", "붴", "붵", "붶", "붷", "붸", "붹", "붺", "붻", "붼", "붽",
     "붾", "붿", "뷀", "뷁", "뷂", "뷃", "뷄", "뷅", "뷆", "뷇", "뷈", "뷉", "뷊", "뷋", "뷌", "뷍",
     "뷎", "뷏", "뷐", "뷑", "뷒", "뷓", "뷔", "뷕", "뷖", "뷗", "뷘", "뷙", "뷚", "뷛", "뷜", "뷝",
     "뷞", "뷟", "뷠", "뷡", "뷢", "뷣", "뷤", "뷥", "뷦", "뷧", "뷨", "뷩", "뷪", "뷫", "뷬", "뷭",
     "뷮", "뷯", "뷰", "뷱", "뷲", "뷳", "뷴", "뷵", "뷶", "뷷", "뷸", "뷹", "뷺", "뷻", "뷼", "뷽",
     "뷾", "뷿", "뺀", "뺁", "뺂", "뺃", "뺄", "뺅", "뺆", "뺇", "뺈", "뺉", "뺊", "뺋", "뺌", "뺍",
     "뺎", "뺏", "뺐", "뺑", "뺒", "뺓", "뺔", "뺕", "뺖", "뺗", "뺘", "뺙", "뺚", "뺛", "뺜", "뺝",
     "뺞", "뺟", "뺠", "뺡", "뺢", "뺣", "뺤", "뺥", "뺦", "뺧", "뺨", "뺩", "뺪", "뺫", "뺬", "뺭",
     "뺮", "뺯", "뺰", "뺱", "뺲", "뺳", "뺴", "뺵", "뺶", "뺷", "뺸", "뺹", "뺺", "뺻", "뺼", "뺽",
     "뺾", "뺿", "뻀", "뻁", "뻂", "뻃", "뻄", "뻅", "뻆", "뻇", "뻈", "뻉", "뻊", "뻋", "뻌", "뻍",
     "뻎", "뻏", "뻐", "뻑", "뻒", "뻓", "뻔", "뻕", "뻖", "뻗", "뻘", "뻙", "뻚", "뻛", "뻜", "뻝",
     "뻞", "뻟", "뻠", "뻡", "뻢", "뻣", "뻤", "뻥", "뻦", "뻧", "뻨", "뻩", "뻪", "뻫", "뻬", "뻭",
     "뻮", "뻯", "뻰", "뻱", "뻲", "뻳", "뻴", "뻵", "뻶", "뻷", "뻸", "뻹", "뻺", "뻻", "뻼", "뻽",
     "뻾", "뻿", "뾀", "뾁", "뾂", "뾃", "뾄", "뾅", "뾆", "뾇", "뾈", "뾉", "뾊", "뾋", "뾌", "뾍",
     "뾎", "뾏", "뾐", "뾑", "뾒", "뾓", "뾔", "뾕", "뾖", "뾗", "뾘", "뾙", "뾚", "뾛", "뾜", "뾝",
     "뾞", "뾟", "뾠", "뾡", "뾢", "뾣", "뾤", "뾥", "뾦", "뾧", "뾨", "뾩", "뾪", "뾫", "뾬", "뾭",
     "뾮", "뾯", "뾰", "뾱", "뾲", "뾳", "뾴", "뾵", "뾶", "뾷", "뾸", "뾹", "뾺", "뾻", "뾼", "뾽",
     "뾾", "뾿", "뿀", "뿁", "뿂", "뿃", "뿄", "뿅", "뿆", "뿇", "뿈", "뿉", "뿊", "뿋", "뿌", "뿍",
     "뿎", "뿏", "뿐", "뿑", "뿒", "뿓", "뿔", "뿕", "뿖", "뿗", "뿘", "뿙", "뿚", "뿛", "뿜", "뿝",
     "뿞", "뿟", "뿠", "뿡", "뿢", "뿣", "뿤", "뿥", "뿦", "뿧", "뿨", "뿩", "뿪", "뿫", "뿬", "뿭",
     "뿮", "뿯", "뿰", "뿱", "뿲", "뿳", "뿴", "뿵", "뿶", "뿷", "뿸", "뿹", "뿺", "뿻", "뿼", "뿽",
     "뿾", "뿿", "삀", "삁", "삂", "삃", "삄", "삅", "삆", "삇", "삈", "삉", "삊", "삋", "삌", "삍",
     "삎", "삏", "삐", "삑", "삒", "삓", "삔", "삕", "삖", "삗", "삘", "삙", "삚", "삛", "삜", "삝",
     "삞", "삟", "삠", "삡", "삢", "삣", "삤", "삥", "삦", "삧", "삨", "삩", "삪", "삫", "사", "삭",
     "삮", "삯", "산", "삱", "삲", "삳", "살", "삵", "삶", "삷", "삸", "삹", "삺", "삻", "삼", "삽",
     "삾", "삿", "샀", "상", "샂", "샃", "샄", "샅", "샆", "샇", "새", "색", "샊", "샋", "샌", "샍",
     "샎", "샏", "샐", "샑", "샒", "샓", "샔", "샕", "샖", "샗", "샘", "샙", "샚", "샛", "샜", "생",
     "샞", "샟", "샠", "샡", "샢", "샣", "샤", "샥", "샦", "샧", "샨", "샩", "샪", "샫", "샬", "샭",
     "샮", "샯", "샰", "샱", "샲", "샳", "샴", "샵", "샶", "샷", "샸", "샹", "샺", "샻", "샼", "샽",
     "샾", "샿", "솀", "솁", "솂", "솃", "솄", "솅", "솆", "솇", "솈", "솉", "솊", "솋", "소", "속",
     "솎", "솏", "손", "솑", "솒", "솓", "솔", "솕", "솖", "솗", "솘", "솙", "솚", "솛", "솜", "솝",
     "솞", "솟", "솠", "송", "솢", "솣", "솤", "솥", "솦", "솧", "솨", "솩", "솪", "솫", "솬", "솭",
     "솮", "솯", "솰", "솱", "솲", "솳", "솴", "솵", "솶", "솷", "솸", "솹", "솺", "솻", "솼", "솽",
     "솾", "솿", "쇀", "쇁", "쇂", "쇃", "쇄", "쇅", "쇆", "쇇", "쇈", "쇉", "쇊", "쇋", "쇌", "쇍",
     "쇎", "쇏", "쇐", "쇑", "쇒", "쇓", "쇔", "쇕", "쇖", "쇗", "쇘", "쇙", "쇚", "쇛", "쇜", "쇝",
     "쇞", "쇟", "쇠", "쇡", "쇢", "쇣", "쇤", "쇥", "쇦", "쇧", "쇨", "쇩", "쇪", "쇫", "쇬", "쇭",
     "쇮", "쇯", "쇰", "쇱", "쇲", "쇳", "쇴", "쇵", "쇶", "쇷", "쇸", "쇹", "쇺", "쇻", "쇼", "쇽",
     "쇾", "쇿", "슀", "슁", "슂", "슃", "슄", "슅", "슆", "슇", "슈", "슉", "슊", "슋", "슌", "슍",
     "슎", "슏", "슐", "슑", "슒", "슓", "슔", "슕", "슖", "슗", "슘", "슙", "슚", "슛", "슜", "슝",
     "슞", "슟", "슠", "슡", "슢", "슣", "스", "슥", "슦", "슧", "슨", "슩", "슪", "슫", "슬", "슭",
     "슮", "슯", "슰", "슱", "슲", "슳", "슴", "습", "슶", "슷", "슸", "승", "슺", "슻", "슼", "슽",
     "슾", "슿", "싀", "싁", "싂", "싃", "싄", "싅", "싆", "싇", "싈", "싉", "싊", "싋", "싌", "싍",
     "싎", "싏", "싐", "싑", "싒", "싓", "싔", "싕", "싖", "싗", "싘", "싙", "싚", "싛", "시", "식",
     "싞", "싟", "신", "싡", "싢", "싣", "실", "싥", "싦", "싧", "싨", "싩", "싪", "싫", "심", "십",
     "싮", "싯", "싰", "싱", "싲", "싳", "싴", "싵", "싶", "싷", "싸", "싹", "싺", "싻", "싼", "싽",
     "싾", "싿", "쎀", "쎁", "쎂", "쎃", "쎄", "쎅", "쎆", "쎇", "쎈", "쎉", "쎊", "쎋", "쎌", "쎍",
     "쎎", "쎏", "쎐", "쎑", "쎒", "쎓", "쎔", "쎕", "쎖", "쎗", "쎘", "쎙", "쎚", "쎛", "쎜", "쎝",
     "쎞", "쎟", "쎠", "쎡", "쎢", "쎣", "쎤", "쎥", "쎦", "쎧", "쎨", "쎩", "쎪", "쎫", "쎬", "쎭",
     "쎮", "쎯", "쎰", "쎱", "쎲", "쎳", "쎴", "쎵", "쎶", "쎷", "쎸", "쎹", "쎺", "쎻", "쎼", "쎽",
     "쎾", "쎿", "쏀", "쏁", "쏂", "쏃", "쏄", "쏅", "쏆", "쏇", "쏈", "쏉", "쏊", "쏋", "쏌", "쏍",
     "쏎", "쏏", "쏐", "쏑", "쏒", "쏓", "쏔", "쏕", "쏖", "쏗", "쏘", "쏙", "쏚", "쏛", "쏜", "쏝",
     "쏞", "쏟", "쏠", "쏡", "쏢", "쏣", "쏤", "쏥", "쏦", "쏧", "쏨", "쏩", "쏪", "쏫", "쏬", "쏭",
     "쏮", "쏯", "쏰", "쏱", "쏲", "쏳", "쏴", "쏵", "쏶", "쏷", "쏸", "쏹", "쏺", "쏻", "쏼", "쏽",
     "쏾", "쏿", "쒀", "쒁", "쒂", "쒃", "쒄", "쒅", "쒆", "쒇", "쒈", "쒉", "쒊", "쒋", "쒌", "쒍",
     "쒎", "쒏", "쒐", "쒑", "쒒", "쒓", "쒔", "쒕", "쒖", "쒗", "쒘", "쒙", "쒚", "쒛", "쒜", "쒝",
     "쒞", "쒟", "쒠", "쒡", "쒢", "쒣", "쒤", "쒥", "쒦", "쒧", "쒨", "쒩", "쒪", "쒫", "쒬", "쒭",
     "쒮", "쒯", "쒰", "쒱", "쒲", "쒳", "쒴", "쒵", "쒶", "쒷", "쒸", "쒹", "쒺", "쒻", "쒼", "쒽",
     "쒾", "쒿", "쓀", "쓁", "쓂", "쓃", "쓄", "쓅", "쓆", "쓇", "쓈", "쓉", "쓊", "쓋", "쓌", "쓍",
     "쓎", "쓏", "쓐", "쓑", "쓒", "쓓", "쓔", "쓕", "쓖", "쓗", "쓘", "쓙", "쓚", "쓛", "쓜", "쓝",
     "쓞", "쓟", "쓠", "쓡", "쓢", "쓣", "쓤", "쓥", "쓦", "쓧", "쓨", "쓩", "쓪", "쓫", "쓬", "쓭",
     "쓮", "쓯", "쓰", "쓱", "쓲", "쓳", "쓴", "쓵", "쓶", "쓷", "쓸", "쓹", "쓺", "쓻", "쓼", "쓽",
     "쓾", "쓿", "얀", "얁", "얂", "얃", "얄", "얅", "얆", "얇", "얈", "얉", "얊", "얋", "얌", "얍",
     "얎", "얏", "얐", "양", "얒", "얓", "얔", "얕", "얖", "얗", "얘", "얙", "얚", "얛", "얜", "얝",
     "얞", "얟", "얠", "얡", "얢", "얣", "얤", "얥", "얦", "얧", "얨", "얩", "얪", "얫", "얬", "얭",
     "얮", "얯", "얰", "얱", "얲", "얳", "어", "억", "얶", "얷", "언", "얹", "얺", "얻", "얼", "얽",
     "얾", "얿", "엀", "엁", "엂", "엃", "엄", "업", "없", "엇", "었", "엉", "엊", "엋", "엌", "엍",
     "엎", "엏", "에", "엑", "엒", "엓", "엔", "엕", "엖", "엗", "엘", "엙", "엚", "엛", "엜", "엝",
     "엞", "엟", "엠", "엡", "엢", "엣", "엤", "엥", "엦", "엧", "엨", "엩", "엪", "엫", "여", "역",
     "엮", "엯", "연", "엱", "엲", "엳", "열", "엵", "엶", "엷", "엸", "엹", "엺", "엻", "염", "엽",
     "엾", "엿", "욀", "욁", "욂", "욃", "욄", "욅", "욆", "욇", "욈", "욉", "욊", "욋", "욌", "욍",
     "욎", "욏", "욐", "욑", "욒", "욓", "요", "욕", "욖", "욗", "욘", "욙", "욚", "욛", "욜", "욝",
     "욞", "욟", "욠", "욡", "욢", "욣", "욤", "욥", "욦", "욧", "욨", "용", "욪", "욫", "욬", "욭",
     "욮", "욯", "우", "욱", "욲", "욳", "운", "욵", "욶", "욷", "울", "욹", "욺", "욻", "욼", "욽",
     "욾", "욿", "움", "웁", "웂", "웃", "웄", "웅", "웆", "웇", "웈", "웉", "웊", "웋", "워", "웍",
     "웎", "웏", "원", "웑", "웒", "웓", "월", "웕", "웖", "웗", "웘", "웙", "웚", "웛", "웜", "웝",
     "웞", "웟", "웠", "웡", "웢", "웣", "웤", "웥", "웦", "웧", "웨", "웩", "웪", "웫", "웬", "웭",
     "웮", "웯", "웰", "웱", "웲", "웳", "웴", "웵", "웶", "웷", "웸", "웹", "웺", "웻", "웼", "웽",
     "웾", "웿", "잀", "잁", "잂", "잃", "임", "입", "잆", "잇", "있", "잉", "잊", "잋", "잌", "잍",
     "잎", "잏", "자", "작", "잒", "잓", "잔", "잕", "잖", "잗", "잘", "잙", "잚", "잛", "잜", "잝",
     "잞", "잟", "잠", "잡", "잢", "잣", "잤", "장", "잦", "잧", "잨", "잩", "잪", "잫", "재", "잭",
     "잮", "잯", "잰", "잱", "잲", "잳", "잴", "잵", "잶", "잷", "잸", "잹", "잺", "잻", "잼", "잽",
     "잾", "잿", "쟀", "쟁", "쟂", "쟃", "쟄", "쟅", "쟆", "쟇", "쟈", "쟉", "쟊", "쟋", "쟌", "쟍",
     "쟎", "쟏", "쟐", "쟑", "쟒", "쟓", "쟔", "쟕", "쟖", "쟗", "쟘", "쟙", "쟚", "쟛", "쟜", "쟝",
     "쟞", "쟟", "쟠", "쟡", "쟢", "쟣", "쟤", "쟥", "쟦", "쟧", "쟨", "쟩", "쟪", "쟫", "쟬", "쟭",
     "쟮", "쟯", "쟰", "쟱", "쟲", "쟳", "쟴", "쟵", "쟶", "쟷", "쟸", "쟹", "쟺", "쟻", "쟼", "쟽",
     "쟾", "쟿", "좀", "좁", "좂", "좃", "좄", "종", "좆", "좇", "좈", "좉", "좊", "좋", "좌", "좍",
     "좎", "좏", "좐", "좑", "좒", "좓", "좔", "좕", "좖", "좗", "좘", "좙", "좚", "좛", "좜", "좝",
     "좞", "좟", "좠", "좡", "좢", "좣", "좤", "좥", "좦", "좧", "좨", "좩", "좪", "좫", "좬", "좭",
     "좮", "좯", "좰", "좱", "좲", "좳", "좴", "좵", "좶", "좷", "좸", "좹", "좺", "좻", "좼", "좽",
     "좾", "좿", "죀", "죁", "죂", "죃", "죄", "죅", "죆", "죇", "죈", "죉", "죊", "죋", "죌", "죍",
     "죎", "죏", "죐", "죑", "죒", "죓", "죔", "죕", "죖", "죗", "죘", "죙", "죚", "죛", "죜", "죝",
     "죞", "죟", "죠", "죡", "죢", "죣", "죤", "죥", "죦", "죧", "죨", "죩", "죪", "죫", "죬", "죭",
     "죮", "죯", "죰", "죱", "죲", "죳", "죴", "죵", "죶", "죷", "죸", "죹", "죺", "죻", "주", "죽",
     "죾", "죿", "즀", "즁", "즂", "즃", "즄", "즅", "즆", "즇", "즈", "즉", "즊", "즋", "즌", "즍",
     "즎", "즏", "즐", "즑", "즒", "즓", "즔", "즕", "즖", "즗", "즘", "즙", "즚", "즛", "즜", "증",
     "즞", "즟", "즠", "즡", "즢", "즣", "즤", "즥", "즦", "즧", "즨", "즩", "즪", "즫", "즬", "즭",
     "즮", "즯", "즰", "즱", "즲", "즳", "즴", "즵", "즶", "즷", "즸", "즹", "즺", "즻", "즼", "즽",
     "즾", "즿", "지", "직", "짂", "짃", "진", "짅", "짆", "짇", "질", "짉", "짊", "짋", "짌", "짍",
     "짎", "짏", "짐", "집", "짒", "짓", "짔", "징", "짖", "짗", "짘", "짙", "짚", "짛", "짜", "짝",
     "짞", "짟", "짠", "짡", "짢", "짣", "짤", "짥", "짦", "짧", "짨", "짩", "짪", "짫", "짬", "짭",
     "짮", "짯", "짰", "짱", "짲", "짳", "짴", "짵", "짶", "짷", "째", "짹", "짺", "짻", "짼", "짽",
     "짾", "짿", "쪀", "쪁", "쪂", "쪃", "쪄", "쪅", "쪆", "쪇", "쪈", "쪉", "쪊", "쪋", "쪌", "쪍",
     "쪎", "쪏", "쪐", "쪑", "쪒", "쪓", "쪔", "쪕", "쪖", "쪗", "쪘", "쪙", "쪚", "쪛", "쪜", "쪝",
     "쪞", "쪟", "쪠", "쪡", "쪢", "쪣", "쪤", "쪥", "쪦", "쪧", "쪨", "쪩", "쪪", "쪫", "쪬", "쪭",
     "쪮", "쪯", "쪰", "쪱", "쪲", "쪳", "쪴", "쪵", "쪶", "쪷", "쪸", "쪹", "쪺", "쪻", "쪼", "쪽",
     "쪾", "쪿", "쫀", "쫁", "쫂", "쫃", "쫄", "쫅", "쫆", "쫇", "쫈", "쫉", "쫊", "쫋", "쫌", "쫍",
     "쫎", "쫏", "쫐", "쫑", "쫒", "쫓", "쫔", "쫕", "쫖", "쫗", "쫘", "쫙", "쫚", "쫛", "쫜", "쫝",
     "쫞", "쫟", "쫠", "쫡", "쫢", "쫣", "쫤", "쫥", "쫦", "쫧", "쫨", "쫩", "쫪", "쫫", "쫬", "쫭",
     "쫮", "쫯", "쫰", "쫱", "쫲", "쫳", "쫴", "쫵", "쫶", "쫷", "쫸", "쫹", "쫺", "쫻", "쫼", "쫽",
     "쫾", "쫿", "쮀", "쮁", "쮂", "쮃", "쮄", "쮅", "쮆", "쮇", "쮈", "쮉", "쮊", "쮋", "쮌", "쮍",
     "쮎", "쮏", "쮐", "쮑", "쮒", "쮓", "쮔", "쮕", "쮖", "쮗", "쮘", "쮙", "쮚", "쮛", "쮜", "쮝",
     "쮞", "쮟", "쮠", "쮡", "쮢", "쮣", "쮤", "쮥", "쮦", "쮧", "쮨", "쮩", "쮪", "쮫", "쮬", "쮭",
     "쮮", "쮯", "쮰", "쮱", "쮲", "쮳", "쮴", "쮵", "쮶", "쮷", "쮸", "쮹", "쮺", "쮻", "쮼", "쮽",
     "쮾", "쮿", "쯀", "쯁", "쯂", "쯃", "쯄", "쯅", "쯆", "쯇", "쯈", "쯉", "쯊", "쯋", "쯌", "쯍",
     "쯎", "쯏", "쯐", "쯑", "쯒", "쯓", "쯔", "쯕", "쯖", "쯗", "쯘", "쯙", "쯚", "쯛", "쯜", "쯝",
     "쯞", "쯟", "쯠", "쯡", "쯢", "쯣", "쯤", "쯥", "쯦", "쯧", "쯨", "쯩", "쯪", "쯫", "쯬", "쯭",
     "쯮", "쯯", "쯰", "쯱", "쯲", "쯳", "쯴", "쯵", "쯶", "쯷", "쯸", "쯹", "쯺", "쯻", "쯼", "쯽",
     "쯾", "쯿", "첀", "첁", "첂", "첃", "첄", "첅", "첆", "첇", "첈", "첉", "첊", "첋", "첌", "첍",
     "첎", "첏", "첐", "첑", "첒", "첓", "첔", "첕", "첖", "첗", "처", "척", "첚", "첛", "천", "첝",
     "첞", "첟", "철", "첡", "첢", "첣", "첤", "첥", "첦", "첧", "첨", "첩", "첪", "첫", "첬", "청",
     "첮", "첯", "첰", "첱", "첲", "첳", "체", "첵", "첶", "첷", "첸", "첹", "첺", "첻", "첼", "첽",
     "첾", "첿", "쳀", "쳁", "쳂", "쳃", "쳄", "쳅", "쳆", "쳇", "쳈", "쳉", "쳊", "쳋", "쳌", "쳍",
     "쳎", "쳏", "쳐", "쳑", "쳒", "쳓", "쳔", "쳕", "쳖", "쳗", "쳘", "쳙", "쳚", "쳛", "쳜", "쳝",
     "쳞", "쳟", "쳠", "쳡", "쳢", "쳣", "쳤", "쳥", "쳦", "쳧", "쳨", "쳩", "쳪", "쳫", "쳬", "쳭",
     "쳮", "쳯", "쳰", "쳱", "쳲", "쳳", "쳴", "쳵", "쳶", "쳷", "쳸", "쳹", "쳺", "쳻", "쳼", "쳽",
     "쳾", "쳿", "춀", "춁", "춂", "춃", "춄", "춅", "춆", "춇", "춈", "춉", "춊", "춋", "춌", "춍",
     "춎", "춏", "춐", "춑", "춒", "춓", "추", "축", "춖", "춗", "춘", "춙", "춚", "춛", "출", "춝",
     "춞", "춟", "춠", "춡", "춢", "춣", "춤", "춥", "춦", "춧", "춨", "충", "춪", "춫", "춬", "춭",
     "춮", "춯", "춰", "춱", "춲", "춳", "춴", "춵", "춶", "춷", "춸", "춹", "춺", "춻", "춼", "춽",
     "춾", "춿", "췀", "췁", "췂", "췃", "췄", "췅", "췆", "췇", "췈", "췉", "췊", "췋", "췌", "췍",
     "췎", "췏", "췐", "췑", "췒", "췓", "췔", "췕", "췖", "췗", "췘", "췙", "췚", "췛", "췜", "췝",
     "췞", "췟", "췠", "췡", "췢", "췣", "췤", "췥", "췦", "췧", "취", "췩", "췪", "췫", "췬", "췭",
     "췮", "췯", "췰", "췱", "췲", "췳", "췴", "췵", "췶", "췷", "췸", "췹", "췺", "췻", "췼", "췽",
     "췾", "췿", "캀", "캁", "캂", "캃", "캄", "캅", "캆", "캇", "캈", "캉", "캊", "캋", "캌", "캍",
     "캎", "캏", "캐", "캑", "캒", "캓", "캔", "캕", "캖", "캗", "캘", "캙", "캚", "캛", "캜", "캝",
     "캞", "캟", "캠", "캡", "캢", "캣", "캤", "캥", "캦", "캧", "캨", "캩", "캪", "캫", "캬", "캭",
     "캮", "캯", "캰", "캱", "캲", "캳", "캴", "캵", "캶", "캷", "캸", "캹", "캺", "캻", "캼", "캽",
     "캾", "캿", "컀", "컁", "컂", "컃", "컄", "컅", "컆", "컇", "컈", "컉", "컊", "컋", "컌", "컍",
     "컎", "컏", "컐", "컑", "컒", "컓", "컔", "컕", "컖", "컗", "컘", "컙", "컚", "컛", "컜", "컝",
     "컞", "컟", "컠", "컡", "컢", "컣", "커", "컥", "컦", "컧", "컨", "컩", "컪", "컫", "컬", "컭",
     "컮", "컯", "컰", "컱", "컲", "컳", "컴", "컵", "컶", "컷", "컸", "컹", "컺", "컻", "컼", "컽",
     "컾", "컿", "쾀", "쾁", "쾂", "쾃", "쾄", "쾅", "쾆", "쾇", "쾈", "쾉", "쾊", "쾋", "쾌", "쾍",
     "쾎", "쾏", "쾐", "쾑", "쾒", "쾓", "쾔", "쾕", "쾖", "쾗", "쾘", "쾙", "쾚", "쾛", "쾜", "쾝",
     "쾞", "쾟", "쾠", "쾡", "쾢", "쾣", "쾤", "쾥", "쾦", "쾧", "쾨", "쾩", "쾪", "쾫", "쾬", "쾭",
     "쾮", "쾯", "쾰", "쾱", "쾲", "쾳", "쾴", "쾵", "쾶", "쾷", "쾸", "쾹", "쾺", "쾻", "쾼", "쾽",
     "쾾", "쾿", "쿀", "쿁", "쿂", "쿃", "쿄", "쿅", "쿆", "쿇", "쿈", "쿉", "쿊", "쿋", "쿌", "쿍",
     "쿎", "쿏", "쿐", "쿑", "쿒", "쿓", "쿔", "쿕", "쿖", "쿗", "쿘", "쿙", "쿚", "쿛", "쿜", "쿝",
     "쿞", "쿟", "쿠", "쿡", "쿢", "쿣", "쿤", "쿥", "쿦", "쿧", "쿨", "쿩", "쿪", "쿫", "쿬", "쿭",
     "쿮", "쿯", "쿰", "쿱", "쿲", "쿳", "쿴", "쿵", "쿶", "쿷", "쿸", "쿹", "쿺", "쿻", "쿼", "쿽",
     "쿾", "쿿", "킀", "킁", "킂", "킃", "킄", "킅", "킆", "킇", "킈", "킉", "킊", "킋", "킌", "킍",
     "킎", "킏", "킐", "킑", "킒", "킓", "킔", "킕", "킖", "킗", "킘", "킙", "킚", "킛", "킜", "킝",
     "킞", "킟", "킠", "킡", "킢", "킣", "키", "킥", "킦", "킧", "킨", "킩", "킪", "킫", "킬", "킭",
     "킮", "킯", "킰", "킱", "킲", "킳", "킴", "킵", "킶", "킷", "킸", "킹", "킺", "킻", "킼", "킽",
     "킾", "킿", "타", "탁", "탂", "탃", "탄", "탅", "탆", "탇", "탈", "탉", "탊", "탋", "탌", "탍",
     "탎", "탏", "탐", "탑", "탒", "탓", "탔", "탕", "탖", "탗", "탘", "탙", "탚", "탛", "태", "택",
     "탞", "탟", "탠", "탡", "탢", "탣", "탤", "탥", "탦", "탧", "탨", "탩", "탪", "탫", "탬", "탭",
     "탮", "탯", "탰", "탱", "탲", "탳", "탴", "탵", "탶", "탷", "탸", "탹", "탺", "탻", "탼", "탽",
     "탾", "탿", "톀", "톁", "톂", "톃", "톄", "톅", "톆", "톇", "톈", "톉", "톊", "톋", "톌", "톍",
     "톎", "톏", "톐", "톑", "톒", "톓", "톔", "톕", "톖", "톗", "톘", "톙", "톚", "톛", "톜", "톝",
     "톞", "톟", "토", "톡", "톢", "톣", "톤", "톥", "톦", "톧", "톨", "톩", "톪", "톫", "톬", "톭",
     "톮", "톯", "톰", "톱", "톲", "톳", "톴", "통", "톶", "톷", "톸", "톹", "톺", "톻", "톼", "톽",
     "톾", "톿", "퇀", "퇁", "퇂", "퇃", "퇄", "퇅", "퇆", "퇇", "퇈", "퇉", "퇊", "퇋", "퇌", "퇍",
     "퇎", "퇏", "퇐", "퇑", "퇒", "퇓", "퇔", "퇕", "퇖", "퇗", "퇘", "퇙", "퇚", "퇛", "퇜", "퇝",
     "퇞", "퇟", "퇠", "퇡", "퇢", "퇣", "퇤", "퇥", "퇦", "퇧", "퇨", "퇩", "퇪", "퇫", "퇬", "퇭",
     "퇮", "퇯", "퇰", "퇱", "퇲", "퇳", "퇴", "퇵", "퇶", "퇷", "퇸", "퇹", "퇺", "퇻", "퇼", "퇽",
     "퇾", "퇿", "튀", "튁", "튂", "튃", "튄", "튅", "튆", "튇", "튈", "튉", "튊", "튋", "튌", "튍",
     "튎", "튏", "튐", "튑", "튒", "튓", "튔", "튕", "튖", "튗", "튘", "튙", "튚", "튛", "튜", "튝",
     "튞", "튟", "튠", "튡", "튢", "튣", "튤", "튥", "튦", "튧", "튨", "튩", "튪", "튫", "튬", "튭",
     "튮", "튯", "튰", "튱", "튲", "튳", "튴", "튵", "튶", "튷", "트", "특", "튺", "튻", "튼", "튽",
     "튾", "튿", "틀", "틁", "틂", "틃", "틄", "틅", "틆", "틇", "틈", "틉", "틊", "틋", "틌", "틍",
     "틎", "틏", "틐", "틑", "틒", "틓", "틔", "틕", "틖", "틗", "틘", "틙", "틚", "틛", "틜", "틝",
     "틞", "틟", "틠", "틡", "틢", "틣", "틤", "틥", "틦", "틧", "틨", "틩", "틪", "틫", "틬", "틭",
     "틮", "틯", "티", "틱", "틲", "틳", "틴", "틵", "틶", "틷", "틸", "틹", "틺", "틻", "틼", "틽",
     "틾", "틿", "펀", "펁", "펂", "펃", "펄", "펅", "펆", "펇", "펈", "펉", "펊", "펋", "펌", "펍",
     "펎", "펏", "펐", "펑", "펒", "펓", "펔", "펕", "펖", "펗", "페", "펙", "펚", "펛", "펜", "펝",
     "펞", "펟", "펠", "펡", "펢", "펣", "펤", "펥", "펦", "펧", "펨", "펩", "펪", "펫", "펬", "펭",
     "펮", "펯", "펰", "펱", "펲", "펳", "펴", "펵", "펶", "펷", "편", "펹", "펺", "펻", "펼", "펽",
     "펾", "펿", "폀", "폁", "폂", "폃", "폄", "폅", "폆", "폇", "폈", "평", "폊", "폋", "폌", "폍",
     "폎", "폏", "폐", "폑", "폒", "폓", "폔", "폕", "폖", "폗", "폘", "폙", "폚", "폛", "폜", "폝",
     "폞", "폟", "폠", "폡", "폢", "폣", "폤", "폥", "폦", "폧", "폨", "폩", "폪", "폫", "포", "폭",
     "폮", "폯", "폰", "폱", "폲", "폳", "폴", "폵", "폶", "폷", "폸", "폹", "폺", "폻", "폼", "폽",
     "폾", "폿", "풀", "풁", "풂", "풃", "풄", "풅", "풆", "풇", "품", "풉", "풊", "풋", "풌", "풍",
     "풎", "풏", "풐", "풑", "풒", "풓", "풔", "풕", "풖", "풗", "풘", "풙", "풚", "풛", "풜", "풝",
     "풞", "풟", "풠", "풡", "풢", "풣", "풤", "풥", "풦", "풧", "풨", "풩", "풪", "풫", "풬", "풭",
     "풮", "풯", "풰", "풱", "풲", "풳", "풴", "풵", "풶", "풷", "풸", "풹", "풺", "풻", "풼", "풽",
     "풾", "풿", "퓀", "퓁", "퓂", "퓃", "퓄", "퓅", "퓆", "퓇", "퓈", "퓉", "퓊", "퓋", "퓌", "퓍",
     "퓎", "퓏", "퓐", "퓑", "퓒", "퓓", "퓔", "퓕", "퓖", "퓗", "퓘", "퓙", "퓚", "퓛", "퓜", "퓝",
     "퓞", "퓟", "퓠", "퓡", "퓢", "퓣", "퓤", "퓥", "퓦", "퓧", "퓨", "퓩", "퓪", "퓫", "퓬", "퓭",
     "퓮", "퓯", "퓰", "퓱", "퓲", "퓳", "퓴", "퓵", "퓶", "퓷", "퓸", "퓹", "퓺", "퓻", "퓼", "퓽",
     "퓾", "퓿", "햀", "햁", "햂", "햃", "햄", "햅", "햆", "햇", "했", "행", "햊", "햋", "햌", "햍",
     "햎", "햏", "햐", "햑", "햒", "햓", "햔", "햕", "햖", "햗", "햘", "햙", "햚", "햛", "햜", "햝",
     "햞", "햟", "햠", "햡", "햢", "햣", "햤", "향", "햦", "햧", "햨", "햩", "햪", "햫", "햬", "햭",
     "햮", "햯", "햰", "햱", "햲", "햳", "햴", "햵", "햶", "햷", "햸", "햹", "햺", "햻", "햼", "햽",
     "햾", "햿", "헀", "헁", "헂", "헃", "헄", "헅", "헆", "헇", "허", "헉", "헊", "헋", "헌", "헍",
     "헎", "헏", "헐", "헑", "헒", "헓", "헔", "헕", "헖", "헗", "험", "헙", "헚", "헛", "헜", "헝",
     "헞", "헟", "헠", "헡", "헢", "헣", "헤", "헥", "헦", "헧", "헨", "헩", "헪", "헫", "헬", "헭",
     "헮", "헯", "헰", "헱", "헲", "헳", "헴", "헵", "헶", "헷", "헸", "헹", "헺", "헻", "헼", "헽",
     "헾", "헿", "횀", "횁", "횂", "횃", "횄", "횅", "횆", "횇", "횈", "횉", "횊", "횋", "회", "획",
     "횎", "횏", "횐", "횑", "횒", "횓", "횔", "횕", "횖", "횗", "횘", "횙", "횚", "횛", "횜", "횝",
     "횞", "횟", "횠", "횡", "횢", "횣", "횤", "횥", "횦", "횧", "효", "횩", "횪", "횫", "횬", "횭",
     "횮", "횯", "횰", "횱", "횲", "횳", "횴", "횵", "횶", "횷", "횸", "횹", "횺", "횻", "횼", "횽",
     "횾", "횿", "훀", "훁", "훂", "훃", "후", "훅", "훆", "훇", "훈", "훉", "훊", "훋", "훌", "훍",
     "훎", "훏", "훐", "훑", "훒", "훓", "훔", "훕", "훖", "훗", "훘", "훙", "훚", "훛", "훜", "훝",
     "훞", "훟", "훠", "훡", "훢", "훣", "훤", "훥", "훦", "훧", "훨", "훩", "훪", "훫", "훬", "훭",
     "훮", "훯", "훰", "훱", "훲", "훳", "훴", "훵", "훶", "훷", "훸", "훹", "훺", "훻", "훼", "훽",
     "훾", "훿", "힀", "힁", "힂", "힃", "힄", "힅", "힆", "힇", "히", "힉", "힊", "힋", "힌", "힍",
     "힎", "힏", "힐", "힑", "힒", "힓", "힔", "힕", "힖", "힗", "힘", "힙", "힚", "힛", "힜", "힝",
     "힞", "힟", "힠", "힡", "힢", "힣", "ힰ", "ힱ", "ힲ", "ힳ", "ힴ", "ힵ", "ힶ", "ힷ", "ힸ", "ힹ",
     "ힺ", "ힻ", "ힼ", "ힽ", "ힾ", "ힿ", "ퟀ", "ퟁ", "ퟂ", "ퟃ", "ퟄ", "ퟅ", "ퟆ", "ퟋ", "ퟌ", "ퟍ",
     "ퟎ", "ퟏ", "ퟐ", "ퟑ", "ퟒ", "ퟓ", "ퟔ", "ퟕ", "ퟖ", "ퟗ", "ퟘ", "ퟙ", "ퟚ", "ퟛ", "ퟜ", "ퟝ",
     "ퟞ", "ퟟ", "ퟠ", "ퟡ", "ퟢ", "ퟣ", "ퟤ", "ퟥ", "ퟦ", "ퟧ", "ퟨ", "ퟩ", "ퟪ", "ퟫ", "ퟬ", "ퟭ",
     "ퟮ", "ퟯ", "ퟰ", "ퟱ", "ퟲ", "ퟳ", "ퟴ", "ퟵ", "ퟶ", "ퟷ", "ퟸ", "ퟹ", "ퟺ", "ퟻ", "呂", "女",
     "廬", "旅", "濾", "礪", "閭", "驪", "麗", "黎", "力", "曆", "歷", "轢", "年", "憐", "戀", "撚",
     "漣", "煉", "璉", "秊", "練", "聯", "輦", "蓮", "連", "鍊", "列", "劣", "咽", "烈", "裂", "說",
     "廉", "念", "捻", "殮", "簾", "獵", "令", "囹", "寧", "嶺", "怜", "玲", "瑩", "羚", "聆", "鈴",
     "零", "靈", "領", "例", "禮", "醴", "隸", "惡", "了", "僚", "寮", "尿", "料", "樂", "燎", "療",
     "蓼", "遼", "龍", "暈", "阮", "劉", "杻", "柳", "流", "溜", "琉", "留", "硫", "紐", "類", "六",
     "戮", "陸", "倫", "崙", "淪", "輪", "律", "慄", "栗", "率", "隆", "利", "吏", "履", "易", "李",
     "梨", "泥", "理", "痢", "罹", "裏", "裡", "里", "離", "匿", "溺", "吝", "燐", "璘", "藺", "隣",
     "鱗", "麟", "林", "淋", "臨", "立", "笠", "粒", "狀", "炙", "識", "什", "茶", "刺", "婢", "嬨",
     "廒", "廙", "彩", "徭", "惘", "慎", "愈", "憎", "慠", "懲", "戴", "揄", "搜", "摒", "敖", "晴",
     "朗", "望", "杖", "歹", "殺", "流", "滛", "滋", "漢", "瀞", "煮", "瞧", "爵", "犯", "猪", "瑱",
     "甆", "画", "瘝", "瘟", "益", "盛", "直", "睊", "着", "磌", "窱", "節", "类", "絛", "練", "缾",
     "者", "荒", "華", "蝹", "襁", "覆", "視", "調", "諸", "請", "謁", "諾", "諭", "謹", "變", "贈",
     "輸", "遲", "醙", "鉶", "陼", "難", "靖", "韛", "響", "頋", "頻", "鬒", "龜", "𢡊", "𢡄", "𣏕",
     "㮝", "䀘", "䀹", "𥉉", "𥳐", "𧻓", "齃", "龎", "ﮀ", "ﮁ", "ﮂ", "ﮃ", "ﮄ", "ﮅ", "ﮆ", "ﮇ",
     "ﮈ", "ﮉ", "ﮊ", "ﮋ", "ﮌ", "ﮍ", "ﮎ", "ﮏ", "ﮐ", "ﮑ", "ﮒ", "ﮓ", "ﮔ", "ﮕ", "ﮖ", "ﮗ",
     "ﮘ", "ﮙ", "ﮚ", "ﮛ", "ﮜ", "ﮝ", "ﮞ", "ﮟ", "ﮠ", "ﮡ", "ﮢ", "ﮣ", "ﮤ", "ﮥ", "ﮦ", "ﮧ",
     "ﮨ", "ﮩ", "ﮪ", "ﮫ", "ﮬ", "ﮭ", "ﮮ", "ﮯ", "ﮰ", "ﮱ", "ﯓ", "ﯔ", "ﯕ", "ﯖ", "ﯗ", "ﯘ",
     "ﯙ", "ﯚ", "ﯛ", "ﯜ", "ﯝ", "ﯞ", "ﯟ", "ﯠ", "ﯡ", "ﯢ", "ﯣ", "ﯤ", "ﯥ", "ﯦ", "ﯧ", "ﯨ",
     "ﯩ", "ﯪ", "ﯫ", "ﯬ", "ﯭ", "ﯮ", "ﯯ", "ﯰ", "ﯱ", "ﯲ", "ﯳ", "ﯴ", "ﯵ", "ﯶ", "ﯷ", "ﯸ",
     "ﯹ", "ﯺ", "ﯻ", "ﯼ", "ﯽ", "ﯾ", "ﯿ", "ﲀ", "ﲁ", "ﲂ", "ﲃ", "ﲄ", "ﲅ", "ﲆ", "ﲇ", "ﲈ",
     "ﲉ", "ﲊ", "ﲋ", "ﲌ", "ﲍ", "ﲎ", "ﲏ", "ﲐ", "ﲑ", "ﲒ", "ﲓ", "ﲔ", "ﲕ", "ﲖ", "ﲗ", "ﲘ",
     "ﲙ", "ﲚ", "ﲛ", "ﲜ", "ﲝ", "ﲞ", "ﲟ", "ﲠ", "ﲡ", "ﲢ", "ﲣ", "ﲤ", "ﲥ", "ﲦ", "ﲧ", "ﲨ",
     "ﲩ", "ﲪ", "ﲫ", "ﲬ", "ﲭ", "ﲮ", "ﲯ", "ﲰ", "ﲱ", "ﲲ", "ﲳ", "ﲴ", "ﲵ", "ﲶ", "ﲷ", "ﲸ",
     "ﲹ", "ﲺ", "ﲻ", "ﲼ", "ﲽ", "ﲾ", "ﲿ", "ﳀ", "ﳁ", "ﳂ", "ﳃ", "ﳄ", "ﳅ", "ﳆ", "ﳇ", "ﳈ",
     "ﳉ", "ﳊ", "ﳋ", "ﳌ", "ﳍ", "ﳎ", "ﳏ", "ﳐ", "ﳑ", "ﳒ", "ﳓ", "ﳔ", "ﳕ", "ﳖ", "ﳗ", "ﳘ",
     "ﳙ", "ﳚ", "ﳛ", "ﳜ", "ﳝ", "ﳞ", "ﳟ", "ﳠ", "ﳡ", "ﳢ", "ﳣ", "ﳤ", "ﳥ", "ﳦ", "ﳧ", "ﳨ",
     "ﳩ", "ﳪ", "ﳫ", "ﳬ", "ﳭ", "ﳮ", "ﳯ", "ﳰ", "ﳱ", "ﳲ", "ﳳ", "ﳴ", "ﳵ", "ﳶ", "ﳷ", "ﳸ",
     "ﳹ", "ﳺ", "ﳻ", "ﳼ", "ﳽ", "ﳾ", "ﳿ", "ﶀ", "ﶁ", "ﶂ", "ﶃ", "ﶄ", "ﶅ", "ﶆ", "ﶇ", "ﶈ",
     "ﶉ", "ﶊ", "ﶋ", "ﶌ", "ﶍ", "ﶎ", "ﶏ", "ﶒ", "ﶓ", "ﶔ", "ﶕ", "ﶖ", "ﶗ", "ﶘ", "ﶙ", "ﶚ",
     "ﶛ", "ﶜ", "ﶝ", "ﶞ", "ﶟ", "ﶠ", "ﶡ", "ﶢ", "ﶣ", "ﶤ", "ﶥ", "ﶦ", "ﶧ", "ﶨ", "ﶩ", "ﶪ",
     "ﶫ", "ﶬ", "ﶭ", "ﶮ", "ﶯ", "ﶰ", "ﶱ", "ﶲ", "ﶳ", "ﶴ", "ﶵ", "ﶶ", "ﶷ", "ﶸ", "ﶹ", "ﶺ",
     "ﶻ", "ﶼ", "ﶽ", "ﶾ", "ﶿ", "ﷀ", "ﷁ", "ﷂ", "ﷃ", "ﷄ", "ﷅ", "ﷆ", "ﷇ", "ﷰ", "ﷱ", "ﷲ",
     "ﷳ", "ﷴ", "ﷵ", "ﷶ", "ﷷ", "ﷸ", "ﷹ", "ﷺ", "ﷻ", "ﺀ", "ﺁ", "ﺂ", "ﺃ", "ﺄ", "ﺅ", "ﺆ",
     "ﺇ", "ﺈ", "ﺉ", "ﺊ", "ﺋ", "ﺌ", "ﺍ", "ﺎ", "ﺏ", "ﺐ", "ﺑ", "ﺒ", "ﺓ", "ﺔ", "ﺕ", "ﺖ",
     "ﺗ", "ﺘ", "ﺙ", "ﺚ", "ﺛ", "ﺜ", "ﺝ", "ﺞ", "ﺟ", "ﺠ", "ﺡ", "ﺢ", "ﺣ", "ﺤ", "ﺥ", "ﺦ",
     "ﺧ", "ﺨ", "ﺩ", "ﺪ", "ﺫ", "ﺬ", "ﺭ", "ﺮ", "ﺯ", "ﺰ", "ﺱ", "ﺲ", "ﺳ", "ﺴ", "ﺵ", "ﺶ",
     "ﺷ", "ﺸ", "ﺹ", "ﺺ", "ﺻ", "ﺼ", "ﺽ", "ﺾ", "ﺿ", "ﻀ", "ﻁ", "ﻂ", "ﻃ", "ﻄ", "ﻅ", "ﻆ",
     "ﻇ", "ﻈ", "ﻉ", "ﻊ", "ﻋ", "ﻌ", "ﻍ", "ﻎ", "ﻏ", "ﻐ", "ﻑ", "ﻒ", "ﻓ", "ﻔ", "ﻕ", "ﻖ",
     "ﻗ", "ﻘ", "ﻙ", "ﻚ", "ﻛ", "ﻜ", "ﻝ", "ﻞ", "ﻟ", "ﻠ", "ﻡ", "ﻢ", "ﻣ", "ﻤ", "ﻥ", "ﻦ",
     "ﻧ", "ﻨ", "ﻩ", "ﻪ", "ﻫ", "ﻬ", "ﻭ", "ﻮ", "ﻯ", "ﻰ", "ﻱ", "ﻲ", "ﻳ", "ﻴ", "ﻵ", "ﻶ",
     "ﻷ", "ﻸ", "ﻹ", "ﻺ", "ﻻ", "ﻼ", "ﾀ", "ﾁ", "ﾂ", "ﾃ", "ﾄ", "ﾅ", "ﾆ", "ﾇ", "ﾈ", "ﾉ",
     "ﾊ", "ﾋ", "ﾌ", "ﾍ", "ﾎ", "ﾏ", "ﾐ", "ﾑ", "ﾒ", "ﾓ", "ﾔ", "ﾕ", "ﾖ", "ﾗ", "ﾘ", "ﾙ",
     "ﾚ", "ﾛ", "ﾜ", "ﾝ", "ﾞ", "ﾟ", "ﾠ", "ﾡ", "ﾢ", "ﾣ", "ﾤ", "ﾥ", "ﾦ", "ﾧ", "ﾨ", "ﾩ",
     "ﾪ", "ﾫ", "ﾬ", "ﾭ", "ﾮ", "ﾯ", "ﾰ", "ﾱ", "ﾲ", "ﾳ", "ﾴ", "ﾵ", "ﾶ", "ﾷ", "ﾸ", "ﾹ",
     "ﾺ", "ﾻ", "ﾼ", "ﾽ", "ﾾ", "ￂ", "ￃ", "ￄ", "ￅ", "ￆ", "ￇ", "ￊ", "ￋ", "ￌ", "ￍ", "ￎ",
     "ￏ", "ￒ", "ￓ", "ￔ", "ￕ", "ￖ", "ￗ", "ￚ", "ￛ", "ￜ", "𰂀", "𰂁", "𰂂", "𰂃", "𰂄", "𰂅",
     "𰂆", "𰂇", "𰂈", "𰂉", "𰂊", "𰂋", "𰂌", "𰂍", "𰂎", "𰂏", "𰂐", "𰂑", "𰂒", "𰂓", "𰂔", "𰂕",
     "𰂖", "𰂗", "𰂘", "𰂙", "𰂚", "𰂛", "𰂜", "𰂝", "𰂞", "𰂟", "𰂠", "𰂡", "𰂢", "𰂣", "𰂤", "𰂥",
     "𰂦", "𰂧", "𰂨", "𰂩", "𰂪", "𰂫", "𰂬", "𰂭", "𰂮", "𰂯", "𰂰", "𰂱", "𰂲", "𰂳", "𰂴", "𰂵",
     "𰂶", "𰂷", "𰂸", "𰂹", "𰂺", "𰂻", "𰂼", "𰂽", "𰂾", "𰂿", "𰃀", "𰃁", "𰃂", "𰃃", "𰃄", "𰃅",
     "𰃆", "𰃇", "𰃈", "𰃉", "𰃊", "𰃋", "𰃌", "𰃍", "𰃎", "𰃏", "𰃐", "𰃑", "𰃒", "𰃓", "𰃔", "𰃕",
     "𰃖", "𰃗", "𰃘", "𰃙", "𰃚", "𰃛", "𰃜", "𰃝", "𰃞", "𰃟", "𰃠", "𰃡", "𰃢", "𰃣", "𰃤", "𰃥",
     "𰃦", "𰃧", "𰃨", "𰃩", "𰃪", "𰃫", "𰃬", "𰃭", "𰃮", "𰃯", "𰃰", "𰃱", "𰃲", "𰃳", "𰃴", "𰃵",
     "𰃶", "𰃷", "𰃸", "𰃹", "𰃺", "𰃻", "𰃼", "𰃽", "𰃾", "𰃿", "𰆀", "𰆁", "𰆂", "𰆃", "𰆄", "𰆅",
     "𰆆", "𰆇", "𰆈", "𰆉", "𰆊", "𰆋", "𰆌", "𰆍", "𰆎", "𰆏", "𰆐", "𰆑", "𰆒", "𰆓", "𰆔", "𰆕",
     "𰆖", "𰆗", "𰆘", "𰆙", "𰆚", "𰆛", "𰆜", "𰆝", "𰆞", "𰆟", "𰆠", "𰆡", "𰆢", "𰆣", "𰆤", "𰆥",
     "𰆦", "𰆧", "𰆨", "𰆩", "𰆪", "𰆫", "𰆬", "𰆭", "𰆮", "𰆯", "𰆰", "𰆱", "𰆲", "𰆳", "𰆴", "𰆵",
     "𰆶", "𰆷", "𰆸", "𰆹", "𰆺", "𰆻", "𰆼", "𰆽", "𰆾", "𰆿", "𰇀", "𰇁", "𰇂", "𰇃", "𰇄", "𰇅",
     "𰇆", "𰇇", "𰇈", "𰇉", "𰇊", "𰇋", "𰇌", "𰇍", "𰇎", "𰇏", "𰇐", "𰇑", "𰇒", "𰇓", "𰇔", "𰇕",
     "𰇖", "𰇗", "𰇘", "𰇙", "𰇚", "𰇛", "𰇜", "𰇝", "𰇞", "𰇟", "𰇠", "𰇡", "𰇢", "𰇣", "𰇤", "𰇥",
     "𰇦", "𰇧", "𰇨", "𰇩", "𰇪", "𰇫", "𰇬", "𰇭", "𰇮", "𰇯", "𰇰", "𰇱", "𰇲", "𰇳", "𰇴", "𰇵",
     "𰇶", "𰇷", "𰇸", "𰇹", "𰇺", "𰇻", "𰇼", "𰇽", "𰇾", "𰇿", "𰊀", "𰊁", "𰊂", "𰊃", "𰊄", "𰊅",
     "𰊆", "𰊇", "𰊈", "𰊉", "𰊊", "𰊋", "𰊌", "𰊍", "𰊎", "𰊏", "𰊐", "𰊑", "𰊒", "𰊓", "𰊔", "𰊕",
     "𰊖", "𰊗", "𰊘", "𰊙", "𰊚", "𰊛", "𰊜", "𰊝", "𰊞", "𰊟", "𰊠", "𰊡", "𰊢", "𰊣", "𰊤", "𰊥",
     "𰊦", "𰊧", "𰊨", "𰊩", "𰊪", "𰊫", "𰊬", "𰊭", "𰊮", "𰊯", "𰊰", "𰊱", "𰊲", "𰊳", "𰊴", "𰊵",
     "𰊶", "𰊷", "𰊸", "𰊹", "𰊺", "𰊻", "𰊼", "𰊽", "𰊾", "𰊿", "𰋀", "𰋁", "𰋂", "𰋃", "𰋄", "𰋅",
     "𰋆", "𰋇", "𰋈", "𰋉", "𰋊", "𰋋", "𰋌", "𰋍", "𰋎", "𰋏", "𰋐", "𰋑", "𰋒", "𰋓", "𰋔", "𰋕",
     "𰋖", "𰋗", "𰋘", "𰋙", "𰋚", "𰋛", "𰋜", "𰋝", "𰋞", "𰋟", "𰋠", "𰋡", "𰋢", "𰋣", "𰋤", "𰋥",
     "𰋦", "𰋧", "𰋨", "𰋩", "𰋪", "𰋫", "𰋬", "𰋭", "𰋮", "𰋯", "𰋰", "𰋱", "𰋲", "𰋳", "𰋴", "𰋵",
     "𰋶", "𰋷", "𰋸", "𰋹", "𰋺", "𰋻", "𰋼", "𰋽", "𰋾", "𰋿", "𰎀", "𰎁", "𰎂", "𰎃", "𰎄", "𰎅",
     "𰎆", "𰎇", "𰎈", "𰎉", "𰎊", "𰎋", "𰎌", "𰎍", "𰎎", "𰎏", "𰎐", "𰎑", "𰎒", "𰎓", "𰎔", "𰎕",
     "𰎖", "𰎗", "𰎘", "𰎙", "𰎚", "𰎛", "𰎜", "𰎝", "𰎞", "𰎟", "𰎠", "𰎡", "𰎢", "𰎣", "𰎤", "𰎥",
     "𰎦", "𰎧", "𰎨", "𰎩", "𰎪", "𰎫", "𰎬", "𰎭", "𰎮", "𰎯", "𰎰", "𰎱", "𰎲", "𰎳", "𰎴", "𰎵",
     "𰎶", "𰎷", "𰎸", "𰎹", "𰎺", "𰎻", "𰎼", "𰎽", "𰎾", "𰎿", "𰏀", "𰏁", "𰏂", "𰏃", "𰏄", "𰏅",
     "𰏆", "𰏇", "𰏈", "𰏉", "𰏊", "𰏋", "𰏌", "𰏍", "𰏎", "𰏏", "𰏐", "𰏑", "𰏒", "𰏓", "𰏔", "𰏕",
     "𰏖", "𰏗", "𰏘", "𰏙", "𰏚", "𰏛", "𰏜", "𰏝", "𰏞", "𰏟", "𰏠", "𰏡", "𰏢", "𰏣", "𰏤", "𰏥",
     "𰏦", "𰏧", "𰏨", "𰏩", "𰏪", "𰏫", "𰏬", "𰏭", "𰏮", "𰏯", "𰏰", "𰏱", "𰏲", "𰏳", "𰏴", "𰏵",
     "𰏶", "𰏷", "𰏸", "𰏹", "𰏺", "𰏻", "𰏼", "𰏽", "𰏾", "𰏿", "𰒀", "𰒁", "𰒂", "𰒃", "𰒄", "𰒅",
     "𰒆", "𰒇", "𰒈", "𰒉", "𰒊", "𰒋", "𰒌", "𰒍", "𰒎", "𰒏", "𰒐", "𰒑", "𰒒", "𰒓", "𰒔", "𰒕",
     "𰒖", "𰒗", "𰒘", "𰒙", "𰒚", "𰒛", "𰒜", "𰒝", "𰒞", "𰒟", "𰒠", "𰒡", "𰒢", "𰒣", "𰒤", "𰒥",
     "𰒦", "𰒧", "𰒨", "𰒩", "𰒪", "𰒫", "𰒬", "𰒭", "𰒮", "𰒯", "𰒰", "𰒱", "𰒲", "𰒳", "𰒴", "𰒵",
     "𰒶", "𰒷", "𰒸", "𰒹", "𰒺", "𰒻", "𰒼", "𰒽", "𰒾", "𰒿", "𰓀", "𰓁", "𰓂", "𰓃", "𰓄", "𰓅",
     "𰓆", "𰓇", "𰓈", "𰓉", "𰓊", "𰓋", "𰓌", "𰓍", "𰓎", "𰓏", "𰓐", "𰓑", "𰓒", "𰓓", "𰓔", "𰓕",
     "𰓖", "𰓗", "𰓘", "𰓙", "𰓚", "𰓛", "𰓜", "𰓝", "𰓞", "𰓟", "𰓠", "𰓡", "𰓢", "𰓣", "𰓤", "𰓥",
     "𰓦", "𰓧", "𰓨", "𰓩", "𰓪", "𰓫", "𰓬", "𰓭", "𰓮", "𰓯", "𰓰", "𰓱", "𰓲", "𰓳", "𰓴", "𰓵",
     "𰓶", "𰓷", "𰓸", "𰓹", "𰓺", "𰓻", "𰓼", "𰓽", "𰓾", "𰓿", "𰖀", "𰖁", "𰖂", "𰖃", "𰖄", "𰖅",
     "𰖆", "𰖇", "𰖈", "𰖉", "𰖊", "𰖋", "𰖌", "𰖍", "𰖎", "𰖏", "𰖐", "𰖑", "𰖒", "𰖓", "𰖔", "𰖕",
     "𰖖", "𰖗", "𰖘", "𰖙", "𰖚", "𰖛", "𰖜", "𰖝", "𰖞", "𰖟", "𰖠", "𰖡", "𰖢", "𰖣", "𰖤", "𰖥",
     "𰖦", "𰖧", "𰖨", "𰖩", "𰖪", "𰖫", "𰖬", "𰖭", "𰖮", "𰖯", "𰖰", "𰖱", "𰖲", "𰖳", "𰖴", "𰖵",
     "𰖶", "𰖷", "𰖸", "𰖹", "𰖺", "𰖻", "𰖼", "𰖽", "𰖾", "𰖿", "𰗀", "𰗁", "𰗂", "𰗃", "𰗄", "𰗅",
     "𰗆", "𰗇", "𰗈", "𰗉", "𰗊", "𰗋", "𰗌", "𰗍", "𰗎", "𰗏", "𰗐", "𰗑", "𰗒", "𰗓", "𰗔", "𰗕",
     "𰗖", "𰗗", "𰗘", "𰗙", "𰗚", "𰗛", "𰗜", "𰗝", "𰗞", "𰗟", "𰗠", "𰗡", "𰗢", "𰗣", "𰗤", "𰗥",
     "𰗦", "𰗧", "𰗨", "𰗩", "𰗪", "𰗫", "𰗬", "𰗭", "𰗮", "𰗯", "𰗰", "𰗱", "𰗲", "𰗳", "𰗴", "𰗵",
     "𰗶", "𰗷", "𰗸", "𰗹", "𰗺", "𰗻", "𰗼", "𰗽", "𰗾", "𰗿", "𰚀", "𰚁", "𰚂", "𰚃", "𰚄", "𰚅",
     "𰚆", "𰚇", "𰚈", "𰚉", "𰚊", "𰚋", "𰚌", "𰚍", "𰚎", "𰚏", "𰚐", "𰚑", "𰚒", "𰚓", "𰚔", "𰚕",
     "𰚖", "𰚗", "𰚘", "𰚙", "𰚚", "𰚛", "𰚜", "𰚝", "𰚞", "𰚟", "𰚠", "𰚡", "𰚢", "𰚣", "𰚤", "𰚥",
     "𰚦", "𰚧", "𰚨", "𰚩", "𰚪", "𰚫", "𰚬", "𰚭", "𰚮", "𰚯", "𰚰", "𰚱", "𰚲", "𰚳", "𰚴", "𰚵",
     "𰚶", "𰚷", "𰚸", "𰚹", "𰚺", "𰚻", "𰚼", "𰚽", "𰚾", "𰚿", "𰛀", "𰛁", "𰛂", "𰛃", "𰛄", "𰛅",
     "𰛆", "𰛇", "𰛈", "𰛉", "𰛊", "𰛋", "𰛌", "𰛍", "𰛎", "𰛏", "𰛐", "𰛑", "𰛒", "𰛓", "𰛔", "𰛕",
     "𰛖", "𰛗", "𰛘", "𰛙", "𰛚", "𰛛", "𰛜", "𰛝", "𰛞", "𰛟", "𰛠", "𰛡", "𰛢", "𰛣", "𰛤", "𰛥",
     "𰛦", "𰛧", "𰛨", "𰛩", "𰛪", "𰛫", "𰛬", "𰛭", "𰛮", "𰛯", "𰛰", "𰛱", "𰛲", "𰛳", "𰛴", "𰛵",
     "𰛶", "𰛷", "𰛸", "𰛹", "𰛺", "𰛻", "𰛼", "𰛽", "𰛾", "𰛿", "𰞀", "𰞁", "𰞂", "𰞃", "𰞄", "𰞅",
     "𰞆", "𰞇", "𰞈", "𰞉", "𰞊", "𰞋", "𰞌", "𰞍", "𰞎", "𰞏", "𰞐", "𰞑", "𰞒", "𰞓", "𰞔", "𰞕",
     "𰞖", "𰞗", "𰞘", "𰞙", "𰞚", "𰞛", "𰞜", "𰞝", "𰞞", "𰞟", "𰞠", "𰞡", "𰞢", "𰞣", "𰞤", "𰞥",
     "𰞦", "𰞧", "𰞨", "𰞩", "𰞪", "𰞫", "𰞬", "𰞭", "𰞮", "𰞯", "𰞰", "𰞱", "𰞲", "𰞳", "𰞴", "𰞵",
     "𰞶", "𰞷", "𰞸", "𰞹", "𰞺", "𰞻", "𰞼", "𰞽", "𰞾", "𰞿", "𰟀", "𰟁", "𰟂", "𰟃", "𰟄", "𰟅",
     "𰟆", "𰟇", "𰟈", "𰟉", "𰟊", "𰟋", "𰟌", "𰟍", "𰟎", "𰟏", "𰟐", "𰟑", "𰟒", "𰟓", "𰟔", "𰟕",
     "𰟖", "𰟗", "𰟘", "𰟙", "𰟚", "𰟛", "𰟜", "𰟝", "𰟞", "𰟟", "𰟠", "𰟡", "𰟢", "𰟣", "𰟤", "𰟥",
     "𰟦", "𰟧", "𰟨", "𰟩", "𰟪", "𰟫", "𰟬", "𰟭", "𰟮", "𰟯", "𰟰", "𰟱", "𰟲", "𰟳", "𰟴", "𰟵",
     "𰟶", "𰟷", "𰟸", "𰟹", "𰟺", "𰟻", "𰟼", "𰟽", "𰟾", "𰟿", "𰢀", "𰢁", "𰢂", "𰢃", "𰢄", "𰢅",
     "𰢆", "𰢇", "𰢈", "𰢉", "𰢊", "𰢋", "𰢌", "𰢍", "𰢎", "𰢏", "𰢐", "𰢑", "𰢒", "𰢓", "𰢔", "𰢕",
     "𰢖", "𰢗", "𰢘", "𰢙", "𰢚", "𰢛", "𰢜", "𰢝", "𰢞", "𰢟", "𰢠", "𰢡", "𰢢", "𰢣", "𰢤", "𰢥",
     "𰢦", "𰢧", "𰢨", "𰢩", "𰢪", "𰢫", "𰢬", "𰢭", "𰢮", "𰢯", "𰢰", "𰢱", "𰢲", "𰢳", "𰢴", "𰢵",
     "𰢶", "𰢷", "𰢸", "𰢹", "𰢺", "𰢻", "𰢼", "𰢽", "𰢾", "𰢿", "𰣀", "𰣁", "𰣂", "𰣃", "𰣄", "𰣅",
     "𰣆", "𰣇", "𰣈", "𰣉", "𰣊", "𰣋", "𰣌", "𰣍", "𰣎", "𰣏", "𰣐", "𰣑", "𰣒", "𰣓", "𰣔", "𰣕",
     "𰣖", "𰣗", "𰣘", "𰣙", "𰣚", "𰣛", "𰣜", "𰣝", "𰣞", "𰣟", "𰣠", "𰣡", "𰣢", "𰣣", "𰣤", "𰣥",
     "𰣦", "𰣧", "𰣨", "𰣩", "𰣪", "𰣫", "𰣬", "𰣭", "𰣮", "𰣯", "𰣰", "𰣱", "𰣲", "𰣳", "𰣴", "𰣵",
     "𰣶", "𰣷", "𰣸", "𰣹", "𰣺", "𰣻", "𰣼", "𰣽", "𰣾", "𰣿", "𰦀", "𰦁", "𰦂", "𰦃", "𰦄", "𰦅",
     "𰦆", "𰦇", "𰦈", "𰦉", "𰦊", "𰦋", "𰦌", "𰦍", "𰦎", "𰦏", "𰦐", "𰦑", "𰦒", "𰦓", "𰦔", "𰦕",
     "𰦖", "𰦗", "𰦘", "𰦙", "𰦚", "𰦛", "𰦜", "𰦝", "𰦞", "𰦟", "𰦠", "𰦡", "𰦢", "𰦣", "𰦤", "𰦥",
     "𰦦", "𰦧", "𰦨", "𰦩", "𰦪", "𰦫", "𰦬", "𰦭", "𰦮", "𰦯", "𰦰", "𰦱", "𰦲", "𰦳", "𰦴", "𰦵",
     "𰦶", "𰦷", "𰦸", "𰦹", "𰦺", "𰦻", "𰦼", "𰦽", "𰦾", "𰦿", "𰧀", "𰧁", "𰧂", "𰧃", "𰧄", "𰧅",
     "𰧆", "𰧇", "𰧈", "𰧉", "𰧊", "𰧋", "𰧌", "𰧍", "𰧎", "𰧏", "𰧐", "𰧑", "𰧒", "𰧓", "𰧔", "𰧕",
     "𰧖", "𰧗", "𰧘", "𰧙", "𰧚", "𰧛", "𰧜", "𰧝", "𰧞", "𰧟", "𰧠", "𰧡", "𰧢", "𰧣", "𰧤", "𰧥",
     "𰧦", "𰧧", "𰧨", "𰧩", "𰧪", "𰧫", "𰧬", "𰧭", "𰧮", "𰧯", "𰧰", "𰧱", "𰧲", "𰧳", "𰧴", "𰧵",
     "𰧶", "𰧷", "𰧸", "𰧹", "𰧺", "𰧻", "𰧼", "𰧽", "𰧾", "𰧿", "𰪀", "𰪁", "𰪂", "𰪃", "𰪄", "𰪅",
     "𰪆", "𰪇", "𰪈", "𰪉", "𰪊", "𰪋", "𰪌", "𰪍", "𰪎", "𰪏", "𰪐", "𰪑", "𰪒", "𰪓", "𰪔", "𰪕",
     "𰪖", "𰪗", "𰪘", "𰪙", "𰪚", "𰪛", "𰪜", "𰪝", "𰪞", "𰪟", "𰪠", "𰪡", "𰪢", "𰪣", "𰪤", "𰪥",
     "𰪦", "𰪧", "𰪨", "𰪩", "𰪪", "𰪫", "𰪬", "𰪭", "𰪮", "𰪯", "𰪰", "𰪱", "𰪲", "𰪳", "𰪴", "𰪵",
     "𰪶", "𰪷", "𰪸", "𰪹", "𰪺", "𰪻", "𰪼", "𰪽", "𰪾", "𰪿", "𰫀", "𰫁", "𰫂", "𰫃", "𰫄", "𰫅",
     "𰫆", "𰫇", "𰫈", "𰫉", "𰫊", "𰫋", "𰫌", "𰫍", "𰫎", "𰫏", "𰫐", "𰫑", "𰫒", "𰫓", "𰫔", "𰫕",
     "𰫖", "𰫗", "𰫘", "𰫙", "𰫚", "𰫛", "𰫜", "𰫝", "𰫞", "𰫟", "𰫠", "𰫡", "𰫢", "𰫣", "𰫤", "𰫥",
     "𰫦", "𰫧", "𰫨", "𰫩", "𰫪", "𰫫", "𰫬", "𰫭", "𰫮", "𰫯", "𰫰", "𰫱", "𰫲", "𰫳", "𰫴", "𰫵",
     "𰫶", "𰫷", "𰫸", "𰫹", "𰫺", "𰫻", "𰫼", "𰫽", "𰫾", "𰫿", "𰮀", "𰮁", "𰮂", "𰮃", "𰮄", "𰮅",
     "𰮆", "𰮇", "𰮈", "𰮉", "𰮊", "𰮋", "𰮌", "𰮍", "𰮎", "𰮏", "𰮐", "𰮑", "𰮒", "𰮓", "𰮔", "𰮕",
     "𰮖", "𰮗", "𰮘", "𰮙", "𰮚", "𰮛", "𰮜", "𰮝", "𰮞", "𰮟", "𰮠", "𰮡", "𰮢", "𰮣", "𰮤", "𰮥",
     "𰮦", "𰮧", "𰮨", "𰮩", "𰮪", "𰮫", "𰮬", "𰮭", "𰮮", "𰮯", "𰮰", "𰮱", "𰮲", "𰮳", "𰮴", "𰮵",
     "𰮶", "𰮷", "𰮸", "𰮹", "𰮺", "𰮻", "𰮼", "𰮽", "𰮾", "𰮿", "𰯀", "𰯁", "𰯂", "𰯃", "𰯄", "𰯅",
     "𰯆", "𰯇", "𰯈", "𰯉", "𰯊", "𰯋", "𰯌", "𰯍", "𰯎", "𰯏", "𰯐", "𰯑", "𰯒", "𰯓", "𰯔", "𰯕",
     "𰯖", "𰯗", "𰯘", "𰯙", "𰯚", "𰯛", "𰯜", "𰯝", "𰯞", "𰯟", "𰯠", "𰯡", "𰯢", "𰯣", "𰯤", "𰯥",
     "𰯦", "𰯧", "𰯨", "𰯩", "𰯪", "𰯫", "𰯬", "𰯭", "𰯮", "𰯯", "𰯰", "𰯱", "𰯲", "𰯳", "𰯴", "𰯵",
     "𰯶", "𰯷", "𰯸", "𰯹", "𰯺", "𰯻", "𰯼", "𰯽", "𰯾", "𰯿", "𰲀", "𰲁", "𰲂", "𰲃", "𰲄", "𰲅",
     "𰲆", "𰲇", "𰲈", "𰲉", "𰲊", "𰲋", "𰲌", "𰲍", "𰲎", "𰲏", "𰲐", "𰲑", "𰲒", "𰲓", "𰲔", "𰲕",
     "𰲖", "𰲗", "𰲘", "𰲙", "𰲚", "𰲛", "𰲜", "𰲝", "𰲞", "𰲟", "𰲠", "𰲡", "𰲢", "𰲣", "𰲤", "𰲥",
     "𰲦", "𰲧", "𰲨", "𰲩", "𰲪", "𰲫", "𰲬", "𰲭", "𰲮", "𰲯", "𰲰", "𰲱", "𰲲", "𰲳", "𰲴", "𰲵",
     "𰲶", "𰲷", "𰲸", "𰲹", "𰲺", "𰲻", "𰲼", "𰲽", "𰲾", "𰲿", "𰳀", "𰳁", "𰳂", "𰳃", "𰳄", "𰳅",
     "𰳆", "𰳇", "𰳈", "𰳉", "𰳊", "𰳋", "𰳌", "𰳍", "𰳎", "𰳏", "𰳐", "𰳑", "𰳒", "𰳓", "𰳔", "𰳕",
     "𰳖", "𰳗", "𰳘", "𰳙", "𰳚", "𰳛", "𰳜", "𰳝", "𰳞", "𰳟", "𰳠", "𰳡", "𰳢", "𰳣", "𰳤", "𰳥",
     "𰳦", "𰳧", "𰳨", "𰳩", "𰳪", "𰳫", "𰳬", "𰳭", "𰳮", "𰳯", "𰳰", "𰳱", "𰳲", "𰳳", "𰳴", "𰳵",
     "𰳶", "𰳷", "𰳸", "𰳹", "𰳺", "𰳻", "𰳼", "𰳽", "𰳾", "𰳿", "𰶀", "𰶁", "𰶂", "𰶃", "𰶄", "𰶅",
     "𰶆", "𰶇", "𰶈", "𰶉", "𰶊", "𰶋", "𰶌", "𰶍", "𰶎", "𰶏", "𰶐", "𰶑", "𰶒", "𰶓", "𰶔", "𰶕",
     "𰶖", "𰶗", "𰶘", "𰶙", "𰶚", "𰶛", "𰶜", "𰶝", "𰶞", "𰶟", "𰶠", "𰶡", "𰶢", "𰶣", "𰶤", "𰶥",
     "𰶦", "𰶧", "𰶨", "𰶩", "𰶪", "𰶫", "𰶬", "𰶭", "𰶮", "𰶯", "𰶰", "𰶱", "𰶲", "𰶳", "𰶴", "𰶵",
     "𰶶", "𰶷", "𰶸", "𰶹", "𰶺", "𰶻", "𰶼", "𰶽", "𰶾", "𰶿", "𰷀", "𰷁", "𰷂", "𰷃", "𰷄", "𰷅",
     "𰷆", "𰷇", "𰷈", "𰷉", "𰷊", "𰷋", "𰷌", "𰷍", "𰷎", "𰷏", "𰷐", "𰷑", "𰷒", "𰷓", "𰷔", "𰷕",
     "𰷖", "𰷗", "𰷘", "𰷙", "𰷚", "𰷛", "𰷜", "𰷝", "𰷞", "𰷟", "𰷠", "𰷡", "𰷢", "𰷣", "𰷤", "𰷥",
     "𰷦", "𰷧", "𰷨", "𰷩", "𰷪", "𰷫", "𰷬", "𰷭", "𰷮", "𰷯", "𰷰", "𰷱", "𰷲", "𰷳", "𰷴", "𰷵",
     "𰷶", "𰷷", "𰷸", "𰷹", "𰷺", "𰷻", "𰷼", "𰷽", "𰷾", "𰷿", "𰺀", "𰺁", "𰺂", "𰺃", "𰺄", "𰺅",
     "𰺆", "𰺇", "𰺈", "𰺉", "𰺊", "𰺋", "𰺌", "𰺍", "𰺎", "𰺏", "𰺐", "𰺑", "𰺒", "𰺓", "𰺔", "𰺕",
     "𰺖", "𰺗", "𰺘", "𰺙", "𰺚", "𰺛", "𰺜", "𰺝", "𰺞", "𰺟", "𰺠", "𰺡", "𰺢", "𰺣", "𰺤", "𰺥",
     "𰺦", "𰺧", "𰺨", "𰺩", "𰺪", "𰺫", "𰺬", "𰺭", "𰺮", "𰺯", "𰺰", "𰺱", "𰺲", "𰺳", "𰺴", "𰺵",
     "𰺶", "𰺷", "𰺸", "𰺹", "𰺺", "𰺻", "𰺼", "𰺽", "𰺾", "𰺿", "𰻀", "𰻁", "𰻂", "𰻃", "𰻄", "𰻅",
     "𰻆", "𰻇", "𰻈", "𰻉", "𰻊", "𰻋", "𰻌", "𰻍", "𰻎", "𰻏", "𰻐", "𰻑", "𰻒", "𰻓", "𰻔", "𰻕",
     "𰻖", "𰻗", "𰻘", "𰻙", "𰻚", "𰻛", "𰻜", "𰻝", "𰻞", "𰻟", "𰻠", "𰻡", "𰻢", "𰻣", "𰻤", "𰻥",
     "𰻦", "𰻧", "𰻨", "𰻩", "𰻪", "𰻫", "𰻬", "𰻭", "𰻮", "𰻯", "𰻰", "𰻱", "𰻲", "𰻳", "𰻴", "𰻵",
     "𰻶", "𰻷", "𰻸", "𰻹", "𰻺", "𰻻", "𰻼", "𰻽", "𰻾", "𰻿", "𰾀", "𰾁", "𰾂", "𰾃", "𰾄", "𰾅",
     "𰾆", "𰾇", "𰾈", "𰾉", "𰾊", "𰾋", "𰾌", "𰾍", "𰾎", "𰾏", "𰾐", "𰾑", "𰾒", "𰾓", "𰾔", "𰾕",
     "𰾖", "𰾗", "𰾘", "𰾙", "𰾚", "𰾛", "𰾜", "𰾝", "𰾞", "𰾟", "𰾠", "𰾡", "𰾢", "𰾣", "𰾤", "𰾥",
     "𰾦", "𰾧", "𰾨", "𰾩", "𰾪", "𰾫", "𰾬", "𰾭", "𰾮", "𰾯", "𰾰", "𰾱", "𰾲", "𰾳", "𰾴", "𰾵",
     "𰾶", "𰾷", "𰾸", "𰾹", "𰾺", "𰾻", "𰾼", "𰾽", "𰾾", "𰾿", "𰿀", "𰿁", "𰿂", "𰿃", "𰿄", "𰿅",
     "𰿆", "𰿇", "𰿈", "𰿉", "𰿊", "𰿋", "𰿌", "𰿍", "𰿎", "𰿏", "𰿐", "𰿑", "𰿒", "𰿓", "𰿔", "𰿕",
     "𰿖", "𰿗", "𰿘", "𰿙", "𰿚", "𰿛", "𰿜", "𰿝", "𰿞", "𰿟", "𰿠", "𰿡", "𰿢", "𰿣", "𰿤", "𰿥",
     "𰿦", "𰿧", "𰿨", "𰿩", "𰿪", "𰿫", "𰿬", "𰿭", "𰿮", "𰿯", "𰿰", "𰿱", "𰿲", "𰿳", "𰿴", "𰿵",
     "𰿶", "𰿷", "𰿸", "𰿹", "𰿺", "𰿻", "𰿼", "𰿽", "𰿾", "𰿿", "𱂀", "𱂁", "𱂂", "𱂃", "𱂄", "𱂅",
     "𱂆", "𱂇", "𱂈", "𱂉", "𱂊", "𱂋", "𱂌", "𱂍", "𱂎", "𱂏", "𱂐", "𱂑", "𱂒", "𱂓", "𱂔", "𱂕",
     "𱂖", "𱂗", "𱂘", "𱂙", "𱂚", "𱂛", "𱂜", "𱂝", "𱂞", "𱂟", "𱂠", "𱂡", "𱂢", "𱂣", "𱂤", "𱂥",
     "𱂦", "𱂧", "𱂨", "𱂩", "𱂪", "𱂫", "𱂬", "𱂭", "𱂮", "𱂯", "𱂰", "𱂱", "𱂲", "𱂳", "𱂴", "𱂵",
     "𱂶", "𱂷", "𱂸", "𱂹", "𱂺", "𱂻", "𱂼", "𱂽", "𱂾", "𱂿", "𱃀", "𱃁", "𱃂", "𱃃", "𱃄", "𱃅",
     "𱃆", "𱃇", "𱃈", "𱃉", "𱃊", "𱃋", "𱃌", "𱃍", "𱃎", "𱃏", "𱃐", "𱃑", "𱃒", "𱃓", "𱃔", "𱃕",
     "𱃖", "𱃗", "𱃘", "𱃙", "𱃚", "𱃛", "𱃜", "𱃝", "𱃞", "𱃟", "𱃠", "𱃡", "𱃢", "𱃣", "𱃤", "𱃥",
     "𱃦", "𱃧", "𱃨", "𱃩", "𱃪", "𱃫", "𱃬", "𱃭", "𱃮", "𱃯", "𱃰", "𱃱", "𱃲", "𱃳", "𱃴", "𱃵",
     "𱃶", "𱃷", "𱃸", "𱃹", "𱃺", "𱃻", "𱃼", "𱃽", "𱃾", "𱃿", "𱆀", "𱆁", "𱆂", "𱆃", "𱆄", "𱆅",
     "𱆆", "𱆇", "𱆈", "𱆉", "𱆊", "𱆋", "𱆌", "𱆍", "𱆎", "𱆏", "𱆐", "𱆑", "𱆒", "𱆓", "𱆔", "𱆕",
     "𱆖", "𱆗", "𱆘", "𱆙", "𱆚", "𱆛", "𱆜", "𱆝", "𱆞", "𱆟", "𱆠", "𱆡", "𱆢", "𱆣", "𱆤", "𱆥",
     "𱆦", "𱆧", "𱆨", "𱆩", "𱆪", "𱆫", "𱆬", "𱆭", "𱆮", "𱆯", "𱆰", "𱆱", "𱆲", "𱆳", "𱆴", "𱆵",
     "𱆶", "𱆷", "𱆸", "𱆹", "𱆺", "𱆻", "𱆼", "𱆽", "𱆾", "𱆿", "𱇀", "𱇁", "𱇂", "𱇃", "𱇄", "𱇅",
     "𱇆", "𱇇", "𱇈", "𱇉", "𱇊", "𱇋", "𱇌", "𱇍", "𱇎", "𱇏", "𱇐", "𱇑", "𱇒", "𱇓", "𱇔", "𱇕",
     "𱇖", "𱇗", "𱇘", "𱇙", "𱇚", "𱇛", "𱇜", "𱇝", "𱇞", "𱇟", "𱇠", "𱇡", "𱇢", "𱇣", "𱇤", "𱇥",
     "𱇦", "𱇧", "𱇨", "𱇩", "𱇪", "𱇫", "𱇬", "𱇭", "𱇮", "𱇯", "𱇰", "𱇱", "𱇲", "𱇳", "𱇴", "𱇵",
     "𱇶", "𱇷", "𱇸", "𱇹", "𱇺", "𱇻", "𱇼", "𱇽", "𱇾", "𱇿", "𱊀", "𱊁", "𱊂", "𱊃", "𱊄", "𱊅",
     "𱊆", "𱊇", "𱊈", "𱊉", "𱊊", "𱊋", "𱊌", "𱊍", "𱊎", "𱊏", "𱊐", "𱊑", "𱊒", "𱊓", "𱊔", "𱊕",
     "𱊖", "𱊗", "𱊘", "𱊙", "𱊚", "𱊛", "𱊜", "𱊝", "𱊞", "𱊟", "𱊠", "𱊡", "𱊢", "𱊣", "𱊤", "𱊥",
     "𱊦", "𱊧", "𱊨", "𱊩", "𱊪", "𱊫", "𱊬", "𱊭", "𱊮", "𱊯", "𱊰", "𱊱", "𱊲", "𱊳", "𱊴", "𱊵",
     "𱊶", "𱊷", "𱊸", "𱊹", "𱊺", "𱊻", "𱊼", "𱊽", "𱊾", "𱊿", "𱋀", "𱋁", "𱋂", "𱋃", "𱋄", "𱋅",
     "𱋆", "𱋇", "𱋈", "𱋉", "𱋊", "𱋋", "𱋌", "𱋍", "𱋎", "𱋏", "𱋐", "𱋑", "𱋒", "𱋓", "𱋔", "𱋕",
     "𱋖", "𱋗", "𱋘", "𱋙", "𱋚", "𱋛", "𱋜", "𱋝", "𱋞", "𱋟", "𱋠", "𱋡", "𱋢", "𱋣", "𱋤", "𱋥",
     "𱋦", "𱋧", "𱋨", "𱋩", "𱋪", "𱋫", "𱋬", "𱋭", "𱋮", "𱋯", "𱋰", "𱋱", "𱋲", "𱋳", "𱋴", "𱋵",
     "𱋶", "𱋷", "𱋸", "𱋹", "𱋺", "𱋻", "𱋼", "𱋽", "𱋾", "𱋿"}

UnicodeDecimalDigits ==
    <<{"۰", "߀", "০", "૦", "௦", "೦", "෦", "໐", "႐", "០", "᧐", "᪀", "᪐", "᮰", "꣐", "꧐", "꧰", "꯰"},
      {"۱", "߁", "১", "૧", "௧", "೧", "෧", "໑", "႑", "១", "᧑", "᪁", "᪑", "᮱", "꣑", "꧑", "꧱", "꯱"},
      {"۲", "߂", "২", "૨", "௨", "೨", "෨", "໒", "႒", "២", "᧒", "᪂", "᪒", "᮲", "꣒", "꧒", "꧲", "꯲"},
      {"۳", "߃", "৩", "૩", "௩", "೩", "෩", "໓", "႓", "៣", "᧓", "᪃", "᪓", "᮳", "꣓", "꧓", "꧳", "꯳"},
      {"۴", "߄", "৪", "૪", "௪", "೪", "෪", "໔", "႔", "៤", "᧔", "᪄", "᪔", "᮴", "꣔", "꧔", "꧴", "꯴"},
      {"۵", "߅", "৫", "૫", "௫", "೫", "෫", "໕", "႕", "៥", "᧕", "᪅", "᪕", "᮵", "꣕", "꧕", "꧵", "꯵"},
      {"۶", "߆", "৬", "૬", "௬", "೬", "෬", "໖", "႖", "៦", "᧖", "᪆", "᪖", "᮶", "꣖", "꧖", "꧶", "꯶"},
      {"۷", "߇", "৭", "૭", "௭", "೭", "෭", "໗", "႗", "៧", "᧗", "᪇", "᪗", "᮷", "꣗", "꧗", "꧷", "꯷"},
      {"۸", "߈", "৮", "૮", "௮", "೮", "෮", "໘", "႘", "៨", "᧘", "᪈", "᪘", "᮸", "꣘", "꧘", "꧸", "꯸"},
      {"۹", "߉", "৯", "૯", "௯", "೯", "෯", "໙", "႙", "៩", "᧙", "᪉", "᪙", "᮹", "꣙", "꧙", "꧹", "꯹"}>>

UnicodeOtherDigits ==
    {"᧚", "₀", "₁", "₂", "₃", "₄", "₅", "₆", "₇", "₈", "₉", "⒈", "⒉", "⒊", "⒋", "⒌",
     "⒍", "⒎", "⒏", "⒐", "⓪", "⓵", "⓶", "⓷", "⓸", "⓹", "⓺", "⓻", "⓼", "⓽", "⓿", "➀",
     "➁", "➂", "➃", "➄", "➅", "➆", "➇", "➈", "➊", "➋", "➌", "➍", "➎", "➏", "➐", "➑",
     "➒"}

UnicodeNumerics ==
    {"৴", "৵", "৶", "৷", "৸", "৹", "௰", "௱", "௲", "ᛮ", "ᛯ", "ᛰ", "៰", "៱", "៲", "៳",
     "៴", "៵", "៶", "៷", "៸", "៹", "ↀ", "ↁ", "ↂ", "ↅ", "ↆ", "ↇ", "ↈ", "↉", "⒀", "⒁",
     "⒂", "⒃", "⒄", "⒅", "⒆", "⒇", "⒑", "⒒", "⒓", "⒔", "⒕", "⒖", "⒗", "⒘", "⒙", "⒚",
     "⒛", "⓫", "⓬", "⓭", "⓮", "⓯", "⓰", "⓱", "⓲", "⓳", "⓴", "⓾", "➉", "➓", "⳽", "㆒",
     "㆓", "㆔", "㆕", "㊀", "㊁", "㊂", "㊃", "㊄", "㊅", "㊆", "㊇", "㊈", "㊉", "㊱", "㊲", "㊳",
     "㊴", "㊵", "㊶", "㊷", "㊸", "㊹", "㊺", "㊻", "㊼", "㊽", "㊾", "㊿", "ꛦ", "ꛧ", "ꛨ", "ꛩ",
     "ꛪ", "ꛫ", "ꛬ", "ꛭ", "ꛮ", "ꛯ"}

\* str.isdecimal: the digits int() and float() accept.
isdecimal(ch) ==
    \/ ch \in Digits
    \/ \E d \in 0..9 : ch \in UnicodeDecimalDigits[d + 1]

isdigit(ch) ==
    \/ isdecimal(ch)
    \/ ch \in SuperscriptDigits
    \/ ch \in UnicodeOtherDigits

isalpha(ch) ==
    \/ ch \in Letters
    \/ ch \in Latin1Letters
    \/ ch \in UnicodeLetters

isalnum(ch) ==
    \/ isalpha(ch)
    \/ isdigit(ch)
    \/ ch \in Fractions
    \/ ch \in UnicodeNumerics

\* Lexer.KEYWORDS.get(lexeme, TokenType.IDENTIFIER) (lexer.py:134-170, 311)
KEYWORDS(lexeme) ==
    CASE lexeme = "function"       -> "FUNCTION"
      [] lexeme = "type"           -> "TYPE"
      [] lexeme = "module"         -> "MODULE"
      [] lexeme = "import"         -> "IMPORT"
      [] lexeme = "export"         -> "EXPORT"
      [] lexeme = "inputs"         -> "INPUTS"
      [] lexeme = "outputs"        -> "OUTPUTS"
      [] lexeme = "requirements"   -> "REQUIREMENTS"
      [] lexeme = "implementation" -> "IMPLEMENTATION"
      [] lexeme = "where"          -> "WHERE"
      [] lexeme = "invariant"      -> "INVARIANT"
      [] lexeme = "ensure"         -> "ENSURE"
      [] lexeme = "otherwise"      -> "OTHERWISE"
      [] lexeme = "match"          -> "MATCH"
      [] lexeme = "if"             -> "IF"
      [] lexeme = "else"           -> "ELSE"
      [] lexeme = "loop"           -> "LOOP"
      [] lexeme = "while"          -> "WHILE"
      [] lexeme = "for"            -> "FOR"
      [] lexeme = "in"             -> "IN"
      [] lexeme = "return"         -> "RETURN"
      [] lexeme = "break"          -> "BREAK"
      [] lexeme = "continue"       -> "CONTINUE"
      [] lexeme = "const"          -> "CONST"
      [] lexeme = "let"            -> "LET"
      [] lexeme = "var"            -> "VAR"
      [] lexeme = "true"           -> "TRUE"
      [] lexeme = "false"          -> "FALSE"
      [] lexeme = "null"           -> "NULL"
      [] lexeme = "and"            -> "AND"
      [] lexeme = "or"             -> "OR"
      [] lexeme = "not"            -> "NOT"
      [] lexeme = "syntax"         -> "SYNTAX"
      [] lexeme = "with_syntax"    -> "WITH_SYNTAX"
      [] lexeme = "use_syntax"     -> "USE_SYNTAX"
      [] OTHER                     -> "IDENTIFIER"

\* The two-character operators of tokenize (lexer.py:371-447), "" if none.
two_char_tokens(lexeme) ==
    CASE lexeme = "==" -> "EQ"
      [] lexeme = "!=" -> "NE"
      [] lexeme = "<=" -> "LE"
      [] lexeme = ">=" -> "GE"
      [] lexeme = "<<" -> "LSHIFT"
      [] lexeme = ">>" -> "RSHIFT"
      [] lexeme = "+=" -> "PLUS_ASSIGN"
      [] lexeme = "-=" -> "MINUS_ASSIGN"
      [] lexeme = "*=" -> "STAR_ASSIGN"
      [] lexeme = "/=" -> "SLASH_ASSIGN"
      [] lexeme = "->" -> "ARROW"
      [] lexeme = "=>" -> "FAT_ARROW"
      [] lexeme = "**" -> "POWER"
      [] OTHER         -> ""

\* single_char_tokens of tokenize (lexer.py:450-474), "" if not in it.
single_char_tokens(ch) ==
    CASE ch = "+" -> "PLUS"
      [] ch = "-" -> "MINUS"
      [] ch = "*" -> "STAR"
      [] ch = "/" -> "SLASH"
      [] ch = "%" -> "PERCENT"
      [] ch = "<" -> "LT"
      [] ch = ">" -> "GT"
      [] ch = "=" -> "ASSIGN"
      [] ch = "&" -> "AMPERSAND"
      [] ch = "|" -> "PIPE"
      [] ch = "^" -> "CARET"
      [] ch = "~" -> "TILDE"
      [] ch = "(" -> "LPAREN"
      [] ch = ")" -> "RPAREN"
      [] ch = "{" -> "LBRACE"
      [] ch = "}" -> "RBRACE"
      [] ch = "[" -> "LBRACKET"
      [] ch = "]" -> "RBRACKET"
      [] ch = "," -> "COMMA"
      [] ch = ":" -> "COLON"
      [] ch = ";" -> "SEMICOLON"
      [] ch = "." -> "DOT"
      [] ch = "?" -> "QUESTION"
      [] OTHER    -> ""

\* The lexer's cursor.
Cursor == [pos |-> pos, line |-> line, column |-> column]

current_location(c) == Loc(c.line, c.column)

is_at_end(c) == c.pos >= Len(source)

peek(c, offset) ==
    IF c.pos + offset >= Len(source) THEN "None" ELSE source[c.pos + offset + 1]

\* Variant of advance that treats a newline like any other character.
advance_same_line(c) ==
    IF is_at_end(c) THEN c
    ELSE [pos |-> c.pos + 1, line |-> c.line, column |-> c.column + 1]

advance(c) ==
    IF is_at_end(c) THEN c
    ELSE IF source[c.pos + 1] = "\n"
         THEN [pos |-> c.pos + 1, line |-> c.line + 1, column |-> 1]
         ELSE [pos |-> c.pos + 1, line |-> c.line, column |-> c.column + 1]

RECURSIVE skip_whitespace(_)
skip_whitespace(c) ==
    IF ~is_at_end(c) /\ peek(c, 0) \in {" ", "\t", "\r"}
    THEN skip_whitespace(advance(c))
    ELSE c

RECURSIVE skip_line_comment(_)
skip_line_comment(c) ==
    IF ~is_at_end(c) /\ peek(c, 0) # "\n"
    THEN skip_line_comment(advance(c))
    ELSE c

\* The result of scanning from a cursor: the cursor reached, the token made
\* (tok.type = "" if none) and the exception raised (NoError if none): a
\* LexerError, or the ValueError of a number's conversion.
Scanned(c, tok, err) == [c |-> c, tok |-> tok, err |-> err]

NoToken == Token("", "", NoLoc, NoneVal)

LexerError(message, location) == [message |-> message, location |-> location]

\* The loop of skip_block_comment (lexer.py:240-246).
RECURSIVE block_comment_loop(_)
block_comment_loop(c) ==
    IF is_at_end(c)
    THEN Scanned(c, NoToken,
                 LexerError("Unterminated block comment", current_location(c)))
    ELSE IF peek(c, 0) = "*" /\ peek(c, 1) = "/"
         THEN Scanned(advance(advance(c)), NoToken, NoError)
         ELSE block_comment_loop(advance(c))

\* skip_block_comment, called with the cursor on the "*".
skip_block_comment(c) == block_comment_loop(advance(c))

\* The decoded character of the escape sequences of tokenize_string
\* (lexer.py:258-267), "" for any other character.
unescape(ch) ==
    CASE ch = "n"  -> "\n"
      [] ch = "t"  -> "\t"
      [] ch = "r"  -> "\r"
      [] ch = "\\" -> "\\"
      [] ch = "\"" -> "\""
      [] OTHER     -> ""

\* The while loop of tokenize_string (lexer.py:254-272): value is the text
\* decoded so far.  string_escape is its branch after a backslash, entered
\* with the backslash consumed.
RECURSIVE string_loop(_, _)
RECURSIVE string_escape(_, _)
string_loop(c, value) ==
    IF is_at_end(c) \/ peek(c, 0) = "\""
    THEN [c |-> c, value |-> value, err |-> NoError]
    ELSE IF peek(c, 0) = "\\"
         THEN string_escape(advance(c), value)
         ELSE string_loop(advance(c), value \o peek(c, 0))

string_escape(c, value) ==
    IF unescape(peek(c, 0)) # ""
    THEN string_loop(advance(c), value \o unescape(peek(c, 0)))
    ELSE [c |-> c, value |-> value,
          err |-> LexerError("Unknown escape sequence: \\" \o peek(c, 0),
                             current_location(c))]

\* tokenize_string after its loop (lexer.py:274-280).
string_token(location, s) ==
    IF s.err # NoError THEN Scanned(s.c, NoToken, s.err)
    ELSE IF is_at_end(s.c)
         THEN Scanned(s.c, NoToken,
                      LexerError("Unterminated string literal", location))
         ELSE Scanned(advance(s.c),
                      Token("STRING", "\"" \o s.value \o "\"", location,
                            StrVal(s.value)),
                      NoError)

\* tokenize_string, called with the cursor on the opening quote.
tokenize_string(c) ==
    string_token(current_location(c), string_loop(advance(c), ""))

\* The value int() gives a decimal digit.
DigitValue(ch) ==
    CHOOSE d \in 0..9 : DigitChars[d + 1] = ch \/ ch \in UnicodeDecimalDigits[d + 1]

\* The digits read so far denote no number: int() and float() raise
\* ValueError on them.
NoNumber == 0 - 1

\* "while ... self.peek().isdigit(): lexeme += self.advance()": n is the
\* number the k digits read so far denote, NoNumber once one of them is no
\* decimal digit.
RECURSIVE digits_loop(_, _, _, _)
digits_loop(c, lexeme, n, k) ==
    IF ~is_at_end(c) /\ isdigit(peek(c, 0))
    THEN digits_loop(advance(c), lexeme \o peek(c, 0),
                     IF n # NoNumber /\ isdecimal(peek(c, 0))
                     THEN 10 * n + DigitValue(peek(c, 0))
                     ELSE NoNumber,
                     k + 1)
    ELSE [c |-> c, lexeme |-> lexeme, n |-> n, k |-> k]

\* The ValueError of int(lexeme) or float(lexeme): a message, no location.
ValueError(message) == [message |-> message]

RECURSIVE Pow10(_)
Pow10(k) == IF k = 0 THEN 1 ELSE 10 * Pow10(k - 1)

\* A decimal fraction num / 10^exp in lowest decimal form: what float()
\* returns for a lexeme (within double precision).
RECURSIVE Decimal(_, _)
Decimal(num, exp) ==
    IF exp > 0 /\ num % 10 = 0 THEN Decimal(num \div 10, exp - 1)
    ELSE <<num, exp>>

\* tokenize_number after the fraction digits (lexer.py:291-296).
float_token(location, whole, frac) ==
    IF whole.n = NoNumber \/ frac.n = NoNumber
    THEN Scanned(frac.c, NoToken,
                 ValueError("could not convert string to float: '"
                            \o frac.lexeme \o "'"))
    ELSE Scanned(frac.c,
                 Token("FLOAT", frac.lexeme, location,
                       FloatVal(Decimal(whole.n * Pow10(frac.k) + frac.n, frac.k))),
                 NoError)

\* tokenize_number after the integer digits (lexer.py:289-298).
number_token(location, whole) ==
    IF /\ ~is_at_end(whole.c)
       /\ peek(whole.c, 0) = "."
       /\ peek(whole.c, 1) # "None"
       /\ isdigit(peek(whole.c, 1))
    THEN float_token(location, whole,
                     digits_loop(advance(whole.c), whole.lexeme \o ".", 0, 0))
    ELSE IF whole.n = NoNumber \/ whole.k = 0
    THEN Scanned(whole.c, NoToken,
                 ValueError("invalid literal for int() with base 10: '"
                            \o whole.lexeme \o "'"))
    ELSE Scanned(whole.c,
                 Token("INTEGER", whole.lexeme, location, IntVal(whole.n)),
                 NoError)

tokenize_number(c) ==
    number_token(current_location(c), digits_loop(c, "", 0, 0))

\* The while loop of tokenize_identifier (lexer.py:307-308).
RECURSIVE identifier_loop(_, _)
identifier_loop(c, lexeme) ==
    IF ~is_at_end(c) /\ (isalnum(peek(c, 0)) \/ peek(c, 0) = "_")
    THEN identifier_loop(advance(c), lexeme \o peek(c, 0))
    ELSE [c |-> c, lexeme |-> lexeme]

\* tokenize_identifier after its loop (lexer.py:310-322).
identifier_token(location, id) ==
    Scanned(id.c,
            Token(KEYWORDS(id.lexeme), id.lexeme, location,
                  CASE KEYWORDS(id.lexeme) = "TRUE"  -> BoolVal(TRUE)
                    [] KEYWORDS(id.lexeme) = "FALSE" -> BoolVal(FALSE)
                    [] OTHER                         -> NoneVal),
            NoError)

tokenize_identifier(c) ==
    identifier_token(current_location(c), identifier_loop(c, ""))

\* Lexer.match (lexer.py:212-219): the cursor after the call, and what it
\* returns.  Nothing in the repository calls it; tokenize compares peek()
\* and advances instead.
lexer_match(c, expected) ==
    IF is_at_end(c) THEN [c |-> c, matched |-> FALSE]
    ELSE IF peek(c, 0) # expected THEN [c |-> c, matched |-> FALSE]
    ELSE [c |-> advance(c), matched |-> TRUE]

\* Lexer.add_token (lexer.py:324-329): the token list after the call.  The
\* lexeme is a Python value: None (NoneVal, the default of the parameter)
\* is replaced by the name of the token type, a string (StrVal) is kept,
\* the string "None" like any other.  Nothing in the repository calls it;
\* tokenize appends its tokens itself.
add_token(toks, c, token_type, lexeme, literal) ==
    Append(toks, Token(token_type,
                       IF lexeme = NoneVal THEN token_type ELSE lexeme.v,
                       current_location(c), literal))

\* The branch one iteration of tokenize's loop takes with the cursor c on a
\* character, after skip_whitespace (lexer.py:339-477, in the code's order).
tokenize_branch(c) ==
    IF peek(c, 0) = "/" /\ peek(c, 1) = "/" THEN "line_comment"
    ELSE IF peek(c, 0) = "/" /\ peek(c, 1) = "*" THEN "block_comment"
    ELSE IF peek(c, 0) = "\n" THEN "newline"
    ELSE IF peek(c, 0) = "\"" THEN "string"
    ELSE IF isdigit(peek(c, 0)) THEN "number"
    ELSE IF isalpha(peek(c, 0)) \/ peek(c, 0) = "_" THEN "identifier"
    ELSE IF two_char_tokens(peek(c, 0) \o peek(c, 1)) # "" THEN "two_char"
    ELSE IF single_char_tokens(peek(c, 0)) # "" THEN "single_char"
    ELSE "unexpected"

-----------------------------------------------------------------------------
(* AST nodes (parser.py:55-223).  An absent optional child is NoneNode.    *)

NoneNode == [kind |-> "None"]

Literal(loc, value)      == [kind |-> "Literal", location |-> loc, value |-> value]
Identifier(loc, name)    == [kind |-> "Identifier", location |-> loc, name |-> name]
BinaryOp(loc, l, op, r)  == [kind |-> "BinaryOp", location |-> loc, left |-> l,
                             operator |-> op, right |-> r]
UnaryOp(loc, op, e)      == [kind |-> "UnaryOp", location |-> loc, operator |-> op,
                             operand |-> e]
Call(loc, f, args)       == [kind |-> "Call", location |-> loc, function |-> f,
                             arguments |-> args]
Member(loc, obj, m)      == [kind |-> "Member", location |-> loc, object |-> obj,
                             member |-> m]
Index(loc, obj, i)       == [kind |-> "Index", location |-> loc, object |-> obj,
                             index |-> i]
ListLiteral(loc, elems)  == [kind |-> "ListLiteral", location |-> loc, elements |-> elems]
Block(loc, stmts)        == [kind |-> "Block", location |-> loc, statements |-> stmts]
Return(loc, value)       == [kind |-> "Return", location |-> loc, value |-> value]
If(loc, c, t, e)         == [kind |-> "If", location |-> loc, condition |-> c,
                             then_block |-> t, else_block |-> e]
While(loc, c, b)         == [kind |-> "While", location |-> loc, condition |-> c,
                             body |-> b]
Ensure(loc, c, t, e)     == [kind |-> "Ensure", location |-> loc, condition |-> c,
                             then_block |-> t, else_block |-> e]
Assignment(loc, t, v, op) == [kind |-> "Assignment", location |-> loc, target |-> t,
                              value |-> v, operator |-> op]
Break(loc)               == [kind |-> "Break", location |-> loc]
Continue(loc)            == [kind |-> "Continue", location |-> loc]
TypeAnnotation(loc, name, args) == [kind |-> "TypeAnnotation", location |-> loc,
                                    name |-> name, type_args |-> args]
Parameter(loc, name, ann) == [kind |-> "Parameter", location |-> loc, name |-> name,
                              type_annotation |-> ann, constraint |-> NoneNode]
Requirement(loc, desc)   == [kind |-> "Requirement", location |-> loc, description |-> desc]
Function(loc, name, ins, outs, reqs, body) ==
    [kind |-> "Function", location |-> loc, name |-> name, inputs |-> ins,
     outputs |-> outs, requirements |-> reqs, body |-> body]
Program(decls)           == [kind |-> "Program", declarations |-> decls]

-----------------------------------------------------------------------------
(* Parser (parser.py:226-720).                                             *)
(* A parse state p is the parser's position in the variable tokens with    *)
(* the value the method just returned: [current, node, error].  Every      *)
(* operator leaves a state that already raised as it is, so a method body  *)
(* reads as the sequence of calls it makes.                                *)

ParseError(message, location) == [message |-> message, location |-> location]

ParseState(cur, node) == [current |-> cur, node |-> node, error |-> NoError]

ParseRaised(p) == p.error.message # ""

\* What a loop iteration returns when it executed `break`.
LoopBreak == [kind |-> "LoopBreak"]

\* Parser.peek (parser.py:245-250)
parser_peek(p, offset) ==
    IF p.current + offset >= Len(tokens)
    THEN Last(tokens)
    ELSE tokens[p.current + offset + 1]

\* Parser.is_at_end (parser.py:241-243)
parser_is_at_end(p) == parser_peek(p, 0).type = "EOF"

\* Parser.previous (parser.py:252-254); tokens[-1] is the last token
previous(p) == IF p.current = 0 THEN Last(tokens) ELSE tokens[p.current]

\* Parser.advance (parser.py:256-260)
parser_advance(p) ==
    IF ParseRaised(p) \/ parser_is_at_end(p) THEN p
    ELSE [p EXCEPT !.current = @ + 1]

\* Parser.check (parser.py:262-266)
check(p, token_type) ==
    IF parser_is_at_end(p) THEN FALSE ELSE parser_peek(p, 0).type = token_type

\* The value Parser.match returns (parser.py:268-274)
check_any(p, token_types) == \E token_type \in token_types : check(p, token_type)

\* The parser after Parser.match (parser.py:268-274)
match(p, token_types) == IF check_any(p, token_types) THEN parser_advance(p) ELSE p

\* Parser.error (parser.py:287-289), raised
parser_error(p, message) ==
    IF ParseRaised(p) THEN p
    ELSE [p EXCEPT !.error = ParseError(message, parser_peek(p, 0).location)]

\* Parser.consume (parser.py:276-280)
consume(p, token_type, message) ==
    IF ParseRaised(p) THEN p
    ELSE IF check(p, token_type) THEN parser_advance(p)
    ELSE parser_error(p, message)

\* Parser.skip_newlines (parser.py:282-285)
RECURSIVE skip_newlines(_)
skip_newlines(p) ==
    IF ParseRaised(p) \/ ~check(p, "NEWLINE") THEN p
    ELSE skip_newlines(parser_advance(p))

\* `return node` from a method that got as far as p
returns(p, node) == IF ParseRaised(p) THEN p ELSE [p EXCEPT !.node = node]

RECURSIVE expression(_), expression_list(_, _), unary(_), postfix_loop(_),
          binary_operand(_, _), binary_loop(_, _), block_loop(_, _, _, _), statement(_)

\* `while True: list.append(self.expression()); if not self.match(COMMA):
\* break` (parser.py:664-668, 711-715); p.node is the list
expression_list_next(pe, elems) ==
    IF ParseRaised(pe) THEN pe
    ELSE IF check(pe, "COMMA")
         THEN expression_list(parser_advance(pe), Append(elems, pe.node))
         ELSE returns(pe, Append(elems, pe.node))

expression_list(p, elems) == expression_list_next(expression(p), elems)

\* `if not self.check(closing): <the loop above>` (parser.py:663, 710)
expressions_until(p, closing) ==
    IF ParseRaised(p) THEN p
    ELSE IF check(p, closing) THEN returns(p, <<>>)
    ELSE expression_list(p, <<>>)

\* The list literal of Parser.primary (parser.py:707-717), after `[` at loc
list_literal(pl, loc) ==
    returns(consume(pl, "RBRACKET", "Expected ']' after list elements"),
            ListLiteral(loc, pl.node))

\* Parser.primary (parser.py:689-720)
primary(p) ==
    IF ParseRaised(p) THEN p
    ELSE IF check_any(p, {"TRUE", "FALSE", "NULL", "INTEGER", "FLOAT", "STRING"})
         THEN returns(parser_advance(p),
                      Literal(parser_peek(p, 0).location, parser_peek(p, 0).literal))
    ELSE IF check(p, "IDENTIFIER")
         THEN returns(parser_advance(p),
                      Identifier(parser_peek(p, 0).location, parser_peek(p, 0).lexeme))
    ELSE IF check(p, "LPAREN")
         THEN consume(expression(parser_advance(p)), "RPAREN",
                      "Expected ')' after expression")
    ELSE IF check(p, "LBRACKET")
         THEN list_literal(expressions_until(parser_advance(p), "RBRACKET"),
                           parser_peek(p, 0).location)
    ELSE parser_error(p, "Unexpected token: " \o parser_peek(p, 0).lexeme)

\* The call branch of Parser.postfix (parser.py:660-670), after the arguments
call_node(pa, callee) ==
    returns(consume(pa, "RPAREN", "Expected ')' after arguments"),
            Call(callee.location, callee, pa.node))

\* The member branch of Parser.postfix (parser.py:672-675), after the `.`
member_node(pm, obj) ==
    returns(consume(pm, "IDENTIFIER", "Expected member name"),
            Member(obj.location, obj, parser_peek(pm, 0).lexeme))

\* The index branch of Parser.postfix (parser.py:677-681), after the index
index_node(pi, obj) ==
    returns(consume(pi, "RBRACKET", "Expected ']' after index"),
            Index(obj.location, obj, pi.node))

\* The loop of Parser.postfix (parser.py:659-684); pe.node is expr
postfix_loop(pe) ==
    IF ParseRaised(pe) THEN pe
    ELSE IF check(pe, "LPAREN")
         THEN postfix_loop(call_node(expressions_until(parser_advance(pe), "RPAREN"),
                                     pe.node))
    ELSE IF check(pe, "DOT")
         THEN postfix_loop(member_node(parser_advance(pe), pe.node))
    ELSE IF check(pe, "LBRACKET")
         THEN postfix_loop(index_node(expression(parser_advance(pe)), pe.node))
    ELSE pe

\* Parser.postfix (parser.py:651-686)
postfix(p) == postfix_loop(primary(p))

\* `return UnaryOp(self.previous().location, operator, operand)`
\* (parser.py:646): previous() is read after the operand was parsed
unary_node(po, operator) ==
    returns(po, UnaryOp(previous(po).location, operator, po.node))

\* Parser.unary (parser.py:641-649)
unary(p) ==
    IF ParseRaised(p) THEN p
    ELSE IF check_any(p, {"MINUS", "NOT", "TILDE"})
         THEN unary_node(unary(parser_advance(p)), parser_peek(p, 0).lexeme)
         ELSE postfix(p)

\* The binary levels of the expression grammar, loosest first, each with
\* the token types its loop matches (parser.py:577-639).
BinaryLevels ==
    << {"OR"}, {"AND"}, {"EQ", "NE"}, {"LT", "GT", "LE", "GE"},
       {"PLUS", "MINUS"}, {"STAR", "SLASH", "PERCENT"} >>

\* The operand method a binary level calls: the next tighter level, and
\* unary from multiplication.
binary_operand(p, level) ==
    IF level = Len(BinaryLevels) THEN unary(p)
    ELSE binary_loop(binary_operand(p, level + 1), level + 1)

\* `left = BinaryOp(left.location, left, operator, right)`
binary_node(pr, left, operator) ==
    returns(pr, BinaryOp(left.location, left, operator, pr.node))

\* Variant of binary_loop that groups a level to the right: the right
\* operand takes the rest of the level.
binary_loop_right(pl, level) ==
    IF ParseRaised(pl) \/ ~check_any(pl, BinaryLevels[level]) THEN pl
    ELSE binary_node(binary_loop(binary_operand(parser_advance(pl), level), level),
                     pl.node, parser_peek(pl, 0).lexeme)

\* `while self.match(...): operator = ...; right = ...; left = BinaryOp(...)`
\* of a binary level; pl.node is left
binary_loop(pl, level) ==
    IF ParseRaised(pl) \/ ~check_any(pl, BinaryLevels[level]) THEN pl
    ELSE binary_loop(binary_node(binary_operand(parser_advance(pl), level),
                                 pl.node, parser_peek(pl, 0).lexeme),
                     level)

\* Parser.multiplication (parser.py:630-639)
multiplication(p) == binary_loop(unary(p), 6)

\* Parser.addition (parser.py:619-628)
addition(p) == binary_loop(multiplication(p), 5)

\* Parser.comparison (parser.py:608-617)
comparison(p) == binary_loop(addition(p), 4)

\* Parser.equality (parser.py:597-606)
equality(p) == binary_loop(comparison(p), 3)

\* Parser.and_expression (parser.py:587-595)
and_expression(p) == binary_loop(equality(p), 2)

\* Parser.or_expression (parser.py:577-585)
or_expression(p) == binary_loop(and_expression(p), 1)

\* Parser.expression (parser.py:572-575)
expression(p) == or_expression(p)

\* `return Assignment(expr.location, expr, value, operator)`
assignment_node(pv, target, operator) ==
    returns(pv, Assignment(target.location, target, pv.node, operator))

\* Parser.assignment_or_expression (parser.py:559-570), after expr
assignment_rest(pe) ==
    IF ParseRaised(pe) THEN pe
    ELSE IF check_any(pe, {"ASSIGN", "PLUS_ASSIGN", "MINUS_ASSIGN",
                           "STAR_ASSIGN", "SLASH_ASSIGN"})
         THEN assignment_node(expression(parser_advance(pe)),
                              pe.node, parser_peek(pe, 0).lexeme)
         ELSE pe

assignment_or_expression(p) == assignment_rest(expression(p))

\* `return Return(location, value)`
return_node(pv, loc) == returns(pv, Return(loc, pv.node))

\* Parser.return_statement (parser.py:498-506)
return_statement(p) ==
    IF ParseRaised(p) THEN p
    ELSE IF ~check(p, "NEWLINE") /\ ~parser_is_at_end(p)
         THEN return_node(expression(p), previous(p).location)
         ELSE returns(p, Return(previous(p).location, NoneNode))

\* A variant of block_statement whose indentation form does not stop at
\* `otherwise`, used to test the property of block ends.
block_statement_through_otherwise(p, brace) ==
    IF ParseRaised(p) THEN p
    ELSE IF brace /\ check(p, "RBRACE") THEN returns(p, LoopBreak)
    ELSE IF ~brace /\ (parser_is_at_end(p)
                         \/ check_any(p, {"FUNCTION", "ELSE"}))
         THEN returns(p, LoopBreak)
    ELSE statement(p)

\* One iteration of a loop of Parser.block (parser.py:438-447, 452-469),
\* after its skip_newlines: LoopBreak, or the statement parsed.
block_statement(p, brace) ==
    IF ParseRaised(p) THEN p
    ELSE IF brace /\ check(p, "RBRACE") THEN returns(p, LoopBreak)
    ELSE IF ~brace /\ (parser_is_at_end(p)
                         \/ check_any(p, {"FUNCTION", "ELSE", "OTHERWISE"}))
         THEN returns(p, LoopBreak)
    ELSE statement(p)

block_iteration(p, brace) == block_statement(skip_newlines(p), brace)

\* What follows the loop of Parser.block (parser.py:449-450, 471)
block_end(p, stmts, loc, brace) ==
    returns(IF brace THEN consume(p, "RBRACE", "Expected '}' after block") ELSE p,
            Block(loc, stmts))

\* `if stmt: block.statements.append(stmt)`, and the next iteration
block_next(ps, stmts, loc, brace) ==
    IF ParseRaised(ps) THEN ps
    ELSE IF ps.node.kind = "LoopBreak" THEN block_end(ps, stmts, loc, brace)
    ELSE block_loop(ps, Append(stmts, ps.node), loc, brace)

\* `while not self.is_at_end(): ...` of Parser.block
block_loop(p, stmts, loc, brace) ==
    IF ParseRaised(p) THEN p
    ELSE IF parser_is_at_end(p) THEN block_end(p, stmts, loc, brace)
    ELSE block_next(block_iteration(p, brace), stmts, loc, brace)

\* Parser.block (parser.py:430-471)
block(p) ==
    IF ParseRaised(p) THEN p
    ELSE block_loop(match(p, {"LBRACE"}), <<>>, parser_peek(p, 0).location,
                    check(p, "LBRACE"))

\* `<keyword> condition ':' newlines block` of if, while and ensure
\* (parser.py:510-514, 529-533, 539-543): the state after the colon's
\* newlines, p.node still the condition
condition_colon(p, message) == skip_newlines(consume(expression(p), "COLON", message))

\* `return While(location, condition, body)`
while_node(pb, loc, condition) == returns(pb, While(loc, condition, pb.node))

\* Parser.while_statement (parser.py:526-535), from the condition on
while_body(pcond, loc) == while_node(block(pcond), loc, pcond.node)

while_statement(p) ==
    while_body(condition_colon(p, "Expected ':' after while condition"),
               previous(p).location)

\* `if_stmt.else_block = self.block()` (parser.py:523, 555)
else_node(pe, stmt) == returns(pe, [stmt EXCEPT !.else_block = pe.node])

\* Parser.if_statement (parser.py:508-524), from the then-block on
if_else(pt, loc, condition) ==
    IF ParseRaised(pt) THEN pt
    ELSE IF check(pt, "ELSE")
         THEN else_node(block(skip_newlines(consume(parser_advance(pt), "COLON",
                                                    "Expected ':' after else"))),
                        If(loc, condition, pt.node, NoneNode))
         ELSE returns(pt, If(loc, condition, pt.node, NoneNode))

if_then(pcond, loc) == if_else(block(pcond), loc, pcond.node)

if_statement(p) ==
    if_then(condition_colon(p, "Expected ':' after if condition"),
            previous(p).location)

\* Parser.ensure_statement (parser.py:537-557), from `otherwise` on
ensure_otherwise(pn, stmt) ==
    IF ParseRaised(pn) THEN pn
    ELSE IF check(pn, "OTHERWISE")
         THEN else_node(block(skip_newlines(consume(parser_advance(pn), "COLON",
                                                    "Expected ':' after otherwise"))),
                        stmt)
         ELSE returns(pn, stmt)

ensure_else(pt, loc, condition) ==
    ensure_otherwise(skip_newlines(pt), Ensure(loc, condition, pt.node, NoneNode))

ensure_then(pcond, loc) == ensure_else(block(pcond), loc, pcond.node)

ensure_statement(p) ==
    ensure_then(condition_colon(p, "Expected ':' after ensure condition"),
                previous(p).location)

\* Parser.statement (parser.py:473-496), after its skip_newlines
statement_at(p) ==
    IF ParseRaised(p) THEN p
    ELSE IF check(p, "RETURN") THEN return_statement(parser_advance(p))
    ELSE IF check(p, "IF") THEN if_statement(parser_advance(p))
    ELSE IF check(p, "WHILE") THEN while_statement(parser_advance(p))
    ELSE IF check(p, "ENSURE") THEN ensure_statement(parser_advance(p))
    ELSE IF check(p, "BREAK")
         THEN returns(parser_advance(p), Break(parser_peek(p, 0).location))
    ELSE IF check(p, "CONTINUE")
         THEN returns(parser_advance(p), Continue(parser_peek(p, 0).location))
    ELSE assignment_or_expression(p)

statement(p) == statement_at(skip_newlines(p))

RECURSIVE type_annotation(_), type_list(_, _)

\* `while True: type_ann.type_args.append(self.type_annotation()); if not
\* self.match(COMMA): break` (parser.py:393-396); p.node is the list
type_list_next(pt, args) ==
    IF ParseRaised(pt) THEN pt
    ELSE IF check(pt, "COMMA")
         THEN type_list(parser_advance(pt), Append(args, pt.node))
         ELSE returns(pt, Append(args, pt.node))

type_list(p, args) == type_list_next(type_annotation(p), args)

\* `self.consume(GT, ...)` and `return type_ann` (parser.py:397, 405)
type_node(pa, name_token) ==
    returns(consume(pa, "GT", "Expected '>' after type arguments"),
            TypeAnnotation(name_token.location, name_token.lexeme, pa.node))

\* Parser.type_annotation (parser.py:386-405), after the name; the check
\* of WHERE changes nothing (parser.py:401-403)
type_arguments(pn, name_token) ==
    IF ParseRaised(pn) THEN pn
    ELSE IF check(pn, "LT")
         THEN type_node(type_list(parser_advance(pn), <<>>), name_token)
         ELSE returns(pn, TypeAnnotation(name_token.location, name_token.lexeme, <<>>))

type_annotation(p) ==
    type_arguments(consume(p, "IDENTIFIER", "Expected type name"), parser_peek(p, 0))

\* `param.type_annotation = self.type_annotation()` and `return param`
parameter_node(pt, name_token) ==
    returns(pt, Parameter(name_token.location, name_token.lexeme, pt.node))

\* Parser.parameter (parser.py:375-384), after the name
parameter_type(pn, name_token) ==
    IF ParseRaised(pn) THEN pn
    ELSE IF check(pn, "COLON")
         THEN parameter_node(type_annotation(parser_advance(pn)), name_token)
         ELSE returns(pn, Parameter(name_token.location, name_token.lexeme, NoneNode))

parameter(p) ==
    parameter_type(consume(p, "IDENTIFIER", "Expected parameter name"),
                   parser_peek(p, 0))

\* `if not self.check(IDENTIFIER): break` (parser.py:364-365)
parameter_after_newlines(p) ==
    IF ~check(p, "IDENTIFIER") THEN returns(p, LoopBreak) ELSE parameter(p)

\* One iteration of the loop of Parser.parameter_list up to
\* `param = self.parameter()` (parser.py:362-367): LoopBreak, or the param
parameter_iteration(p) ==
    IF check(p, "NEWLINE") THEN parameter_after_newlines(skip_newlines(p))
    ELSE parameter(p)

\* " ".join(desc_tokens)
RECURSIVE join(_)
join(strs) ==
    IF Len(strs) = 0 THEN ""
    ELSE IF Len(strs) = 1 THEN strs[1]
    ELSE strs[1] \o " " \o join(Tail(strs))

\* `while not self.check(NEWLINE) and not self.is_at_end():
\* desc_tokens.append(self.advance().lexeme)` and the Requirement made of
\* them (parser.py:419-426)
RECURSIVE description(_, _)
description(p, desc_tokens) ==
    IF check(p, "NEWLINE") \/ parser_is_at_end(p)
    THEN returns(p, Requirement(previous(p).location, join(desc_tokens)))
    ELSE description(parser_advance(p),
                     Append(desc_tokens, parser_peek(p, 0).lexeme))

\* `if self.match(MINUS): ...` (parser.py:416-426): the requirement, or
\* NoneNode when the iteration appended nothing
requirement(p) ==
    IF check(p, "MINUS") THEN description(parser_advance(p), <<>>)
    ELSE returns(p, NoneNode)

\* `if not self.check(MINUS): break` (parser.py:413-414)
requirement_after_newlines(p) ==
    IF ~check(p, "MINUS") THEN returns(p, LoopBreak) ELSE requirement(p)

\* One iteration of the loop of Parser.requirement_list (parser.py:411-426)
requirement_iteration(p) ==
    IF check(p, "NEWLINE") THEN requirement_after_newlines(skip_newlines(p))
    ELSE requirement(p)

\* `function = Function(location, name_token.lexeme)` (parser.py:315-318);
\* p0 is the parser after `function`
function_node(pn, p0) ==
    returns(pn, Function(previous(p0).location, parser_peek(p0, 0).lexeme,
                         <<>>, <<>>, <<>>, NoneNode))

\* Parser.function_declaration up to the sections (parser.py:313-321)
function_header(p) ==
    skip_newlines(consume(function_node(consume(p, "IDENTIFIER",
                                                "Expected function name"), p),
                          "COLON", "Expected ':' after function name"))

\* Parser.declaration (parser.py:305-311) with the function's header
declaration(p) ==
    IF check(p, "FUNCTION") THEN function_header(parser_advance(p))
    ELSE parser_error(p, "Unexpected token: " \o parser_peek(p, 0).lexeme)

\* The optional sections of a function in the order function_declaration
\* looks for them (parser.py:323-342)
Sections ==
    << [token |-> "INPUTS", name |-> "inputs"],
       [token |-> "OUTPUTS", name |-> "outputs"],
       [token |-> "REQUIREMENTS", name |-> "requirements"] >>

\* The loop function_declaration is in next, with the Block its body
\* starts as when that loop is the one of Parser.block (parser.py:432-436)
Entered(section, body) == [section |-> section, body |-> body]

block_entered(p) ==
    returns(match(p, {"LBRACE"}),
            Entered(IF check(p, "LBRACE") THEN "brace_block" ELSE "indent_block",
                    Block(parser_peek(p, 0).location, <<>>)))

\* `self.consume(IMPLEMENTATION, ...)` up to the loop of block()
\* (parser.py:344-349, 430-436)
implementation(p) ==
    block_entered(skip_newlines(consume(consume(p, "IMPLEMENTATION",
                                                "Expected 'implementation'"),
                                        "COLON",
                                        "Expected ':' after 'implementation'")))

\* function_declaration from its k-th `if self.match(<section>)` on, up to
\* the first loop it enters (parser.py:323-349)
RECURSIVE function_sections(_, _)
function_sections(p, k) ==
    IF ParseRaised(p) THEN p
    ELSE IF k > Len(Sections) THEN implementation(p)
    ELSE IF check(p, Sections[k].token)
         THEN returns(skip_newlines(consume(parser_advance(p), "COLON",
                                            "Expected ':' after '"
                                                \o Sections[k].name \o "'")),
                      Entered(Sections[k].name, NoneNode))
    ELSE function_sections(p, k + 1)

-----------------------------------------------------------------------------
(* TypeChecker (type_checker.py:11-433).                                   *)
(* A type environment chain is a sequence of scopes, the global one first  *)
(* and current_env last; a scope maps names to types.  A checker state k   *)
(* holds the chain (env), the errors recorded so far and the type the last *)
(* check_* call returned (typ).                                            *)

PrimitiveType(name)      == [k |-> "primitive", name |-> name]
FunctionType(ptypes, rt) == [k |-> "function", param_types |-> ptypes, return_type |-> rt]
ListType(elem)           == [k |-> "list", element_type |-> elem]
VoidType                 == [k |-> "void"]
\* lookup's None
NoType                   == [k |-> "none"]

INTEGER_TYPE == PrimitiveType("Integer")
FLOAT_TYPE   == PrimitiveType("Float")
STRING_TYPE  == PrimitiveType("String")
BOOLEAN_TYPE == PrimitiveType("Boolean")
VOID_TYPE    == VoidType

TypeCheckError(message, location) == [message |-> message, location |-> location]

\* TypeEnvironment.define on one scope: self.bindings[name] = typ
Bind(scope, name, typ) ==
    [n \in DOMAIN scope \cup {name} |-> IF n = name THEN typ ELSE scope[n]]

\* TypeEnvironment.lookup, from the i-th scope of the chain towards the
\* global one.
RECURSIVE lookup_from(_, _, _)
lookup_from(env, i, name) ==
    IF i = 0 THEN NoType
    ELSE IF name \in DOMAIN env[i] THEN env[i][name]
    ELSE lookup_from(env, i - 1, name)

lookup(env, name) == lookup_from(env, Len(env), name)

\* define_builtins (type_checker.py:106-130)
Builtins ==
    [n \in {"print", "println", "len", "substr", "char_at", "str_concat", "str_eq",
            "str_to_int", "int_to_str", "is_digit", "is_alpha", "is_alnum",
            "list_append", "list_get", "list_set", "exit"} |->
        CASE n = "print"       -> FunctionType(<<STRING_TYPE>>, VOID_TYPE)
          [] n = "println"     -> FunctionType(<<STRING_TYPE>>, VOID_TYPE)
          [] n = "len"         -> FunctionType(<<STRING_TYPE>>, INTEGER_TYPE)
          [] n = "substr"      -> FunctionType(<<STRING_TYPE, INTEGER_TYPE, INTEGER_TYPE>>,
                                               STRING_TYPE)
          [] n = "char_at"     -> FunctionType(<<STRING_TYPE, INTEGER_TYPE>>, STRING_TYPE)
          [] n = "str_concat"  -> FunctionType(<<STRING_TYPE, STRING_TYPE>>, STRING_TYPE)
          [] n = "str_eq"      -> FunctionType(<<STRING_TYPE, STRING_TYPE>>, BOOLEAN_TYPE)
          [] n = "str_to_int"  -> FunctionType(<<STRING_TYPE>>, INTEGER_TYPE)
          [] n = "int_to_str"  -> FunctionType(<<INTEGER_TYPE>>, STRING_TYPE)
          [] n = "is_digit"    -> FunctionType(<<STRING_TYPE>>, BOOLEAN_TYPE)
          [] n = "is_alpha"    -> FunctionType(<<STRING_TYPE>>, BOOLEAN_TYPE)
          [] n = "is_alnum"    -> FunctionType(<<STRING_TYPE>>, BOOLEAN_TYPE)
          [] n = "list_append" -> FunctionType(<<INTEGER_TYPE, INTEGER_TYPE>>, INTEGER_TYPE)
          [] n = "list_get"    -> FunctionType(<<INTEGER_TYPE, INTEGER_TYPE>>, INTEGER_TYPE)
          [] n = "list_set"    -> FunctionType(<<INTEGER_TYPE, INTEGER_TYPE, INTEGER_TYPE>>,
                                               INTEGER_TYPE)
          [] OTHER             -> FunctionType(<<INTEGER_TYPE>>, VOID_TYPE)]

RECURSIVE resolve_type_annotation(_)
resolve_type_annotation(annotation) ==
    IF annotation.kind = "None" THEN VOID_TYPE
    ELSE CASE annotation.name = "Integer" -> INTEGER_TYPE
           [] annotation.name = "Float"   -> FLOAT_TYPE
           [] annotation.name = "String"  -> STRING_TYPE
           [] annotation.name = "Boolean" -> BOOLEAN_TYPE
           [] annotation.name = "List"    ->
                  IF annotation.type_args # <<>>
                  THEN ListType(resolve_type_annotation(annotation.type_args[1]))
                  ELSE ListType(INTEGER_TYPE)
           [] OTHER                       -> INTEGER_TYPE

CheckState(env, errs, typ) == [env |-> env, errors |-> errs, typ |-> typ]

\* "return typ" of a check_* method
returning(k, typ) == [k EXCEPT !.typ = typ]

\* self.error(message, location)
error(k, message, location) ==
    [k EXCEPT !.errors = Append(@, TypeCheckError(message, location))]

\* self.current_env.define(name, typ)
define(k, name, typ) ==
    [k EXCEPT !.env[Len(k.env)] = Bind(@, name, typ)]

\* self.current_env = self.current_env.child()
child(k) == [k EXCEPT !.env = Append(@, <<>>)]

\* self.current_env = self.current_env.parent
parent(k) == [k EXCEPT !.env = SubSeq(@, 1, Len(@) - 1)]

RECURSIVE check_expression(_, _)
RECURSIVE check_expressions(_, _, _)
RECURSIVE check_statement(_, _)
RECURSIVE check_statements(_, _, _)

\* isinstance(value, int) is also true of a bool.
check_literal(k, lit) ==
    returning(k, CASE lit.value.t \in {"int", "bool"} -> INTEGER_TYPE
                   [] lit.value.t = "float"           -> FLOAT_TYPE
                   [] lit.value.t = "str"             -> STRING_TYPE
                   [] OTHER                           -> VOID_TYPE)

\* Variant of check_identifier that binds the name it reported.
check_identifier_binding(k, ident) ==
    IF lookup(k.env, ident.name).k = "none"
    THEN returning(define(error(k, "Undefined variable: " \o ident.name,
                                ident.location),
                          ident.name, INTEGER_TYPE),
                   INTEGER_TYPE)
    ELSE returning(k, lookup(k.env, ident.name))

check_identifier(k, ident) ==
    IF lookup(k.env, ident.name).k = "none"
    THEN returning(error(k, "Undefined variable: " \o ident.name, ident.location),
                   INTEGER_TYPE)
    ELSE returning(k, lookup(k.env, ident.name))

IsNumeric(typ) == typ.k = "primitive" /\ typ.name \in {"Integer", "Float"}

\* The result type of check_binary_op (type_checker.py:329-348).
binary_type(operator, left_type, right_type) ==
    IF operator \in {"+", "-", "*", "/", "%", "**"}
    THEN IF /\ IsNumeric(left_type) /\ IsNumeric(right_type)
            /\ (left_type.name = "Float" \/ right_type.name = "Float")
         THEN FLOAT_TYPE
         ELSE INTEGER_TYPE
    ELSE IF operator \in {"<", ">", "<=", ">=", "==", "!=", "and", "or"}
         THEN BOOLEAN_TYPE
         ELSE INTEGER_TYPE

\* check_binary_op from the right operand on; kl is the state after the left.
binary_right(kl, kr, operator) ==
    returning(kr, binary_type(operator, kl.typ, kr.typ))

binary_left(kl, binop) ==
    binary_right(kl, check_expression(kl, binop.right), binop.operator)

check_binary_op(k, binop) == binary_left(check_expression(k, binop.left), binop)

\* The result type of check_unary_op (type_checker.py:354-359).
unary_type(k, operator) ==
    IF operator = "-" THEN k
    ELSE IF operator = "not" THEN returning(k, BOOLEAN_TYPE)
    ELSE returning(k, INTEGER_TYPE)

check_unary_op(k, unop) ==
    unary_type(check_expression(k, unop.operand), unop.operator)

\* check_call after call.function was checked with result type func_type.
call_type(k, func_type) ==
    IF func_type.k = "function" THEN returning(k, func_type.return_type)
    ELSE returning(k, VOID_TYPE)

call_arguments(kf, call) ==
    call_type(check_expressions(kf, call.arguments, 1), kf.typ)

check_call(k, call) == call_arguments(check_expression(k, call.function), call)

check_member(k, member) ==
    returning(check_expression(k, member.object), INTEGER_TYPE)

index_type(k, obj_type) ==
    IF obj_type.k = "list" THEN returning(k, obj_type.element_type)
    ELSE returning(k, INTEGER_TYPE)

index_object(ko, index) == index_type(check_expression(ko, index.index), ko.typ)

check_index(k, index) == index_object(check_expression(k, index.object), index)

list_first(k1, lst) ==
    returning(check_expressions(k1, lst.elements, 2), ListType(k1.typ))

check_list_literal(k, lst) ==
    IF lst.elements = <<>> THEN returning(k, ListType(INTEGER_TYPE))
    ELSE list_first(check_expression(k, lst.elements[1]), lst)

check_expression(k, expr) ==
    CASE expr.kind = "Literal"     -> check_literal(k, expr)
      [] expr.kind = "Identifier"  -> check_identifier(k, expr)
      [] expr.kind = "BinaryOp"    -> check_binary_op(k, expr)
      [] expr.kind = "UnaryOp"     -> check_unary_op(k, expr)
      [] expr.kind = "Call"        -> check_call(k, expr)
      [] expr.kind = "Member"      -> check_member(k, expr)
      [] expr.kind = "Index"       -> check_index(k, expr)
      [] expr.kind = "ListLiteral" -> check_list_literal(k, expr)
      [] OTHER                     -> returning(k, INTEGER_TYPE)

\* "for arg in ...: self.check_expression(arg)", from the i-th on.
check_expressions(k, exprs, i) ==
    IF i > Len(exprs) THEN k
    ELSE check_expressions(check_expression(k, exprs[i]), exprs, i + 1)

\* check_block: last_type = VOID_TYPE, then every statement in turn.
check_block(k, blk) ==
    check_statements(returning(k, VOID_TYPE), blk.statements, 1)

\* Variant of check_scoped_block that checks the block in the scope of the
\* statement itself.
check_scoped_block_same_scope(k, blk) == check_block(k, blk)

\* A block checked in a child environment (type_checker.py:241-243).
check_scoped_block(k, blk) == parent(check_block(child(k), blk))

\* "if stmt.else_block: <child>; check_block(else_block); <parent>"
check_else_block(k, else_block) ==
    IF else_block.kind # "None" THEN check_scoped_block(k, else_block) ELSE k

check_return(k, ret) ==
    IF ret.value.kind # "None" THEN check_expression(k, ret.value)
    ELSE returning(k, VOID_TYPE)

check_if(k, if_stmt) ==
    returning(
        check_else_block(
            check_scoped_block(check_expression(k, if_stmt.condition),
                               if_stmt.then_block),
            if_stmt.else_block),
        VOID_TYPE)

check_while(k, while_stmt) ==
    returning(
        check_scoped_block(check_expression(k, while_stmt.condition),
                           while_stmt.body),
        VOID_TYPE)

check_ensure(k, ensure_stmt) ==
    returning(
        check_else_block(
            check_scoped_block(check_expression(k, ensure_stmt.condition),
                               ensure_stmt.then_block),
            ensure_stmt.else_block),
        VOID_TYPE)

\* check_assignment after the value was checked (type_checker.py:284-288).
define_target(kv, assign) ==
    IF assign.target.kind = "Identifier"
    THEN define(kv, assign.target.name, kv.typ)
    ELSE kv

check_assignment(k, assign) ==
    define_target(check_expression(k, assign.value), assign)

check_statement(k, stmt) ==
    CASE stmt.kind = "Return"     -> check_return(k, stmt)
      [] stmt.kind = "If"         -> check_if(k, stmt)
      [] stmt.kind = "While"      -> check_while(k, stmt)
      [] stmt.kind = "Ensure"     -> check_ensure(k, stmt)
      [] stmt.kind = "Assignment" -> check_assignment(k, stmt)
      [] stmt.kind \in {"Break", "Continue"} -> returning(k, VOID_TYPE)
      [] OTHER                    -> check_expression(k, stmt)

\* "for stmt in block.statements: last_type = self.check_statement(stmt)"
check_statements(k, stmts, i) ==
    IF i > Len(stmts) THEN k
    ELSE check_statements(check_statement(k, stmts[i]), stmts, i + 1)

\* "for param in func.inputs: self.current_env.define(param.name, ...)"
RECURSIVE define_parameters(_, _, _)
define_parameters(k, inputs, i) ==
    IF i > Len(inputs) THEN k
    ELSE define_parameters(
             define(k, inputs[i].name,
                    resolve_type_annotation(inputs[i].type_annotation)),
             inputs, i + 1)

\* "if func.body: self.check_block(func.body)"
check_body(k, body) == IF body.kind # "None" THEN check_block(k, body) ELSE k

\* Variant of check_function that binds in the global scope itself instead
\* of a child of it.
check_function_no_child(genv, errs, func) ==
    check_body(define_parameters(CheckState(<<genv>>, errs, VOID_TYPE),
                                 func.inputs, 1),
               func.body)

\* check_function with the global scope genv and the errors errs recorded so
\* far; "self.current_env = self.global_env" ends it, so what remains is the
\* global scope (.env[1]) and the errors.
check_function(genv, errs, func) ==
    check_body(define_parameters(CheckState(<<genv, <<>>>>, errs, VOID_TYPE),
                                 func.inputs, 1),
               func.body)

\* The function type the first pass of check_program defines
\* (type_checker.py:168-179).
declared_type(decl) ==
    FunctionType([i \in 1..Len(decl.inputs) |->
                      resolve_type_annotation(decl.inputs[i].type_annotation)],
                 IF decl.outputs # <<>>
                 THEN resolve_type_annotation(decl.outputs[1].type_annotation)
                 ELSE VOID_TYPE)

-----------------------------------------------------------------------------
(* CodeGenerator (codegen.py:93-405).                                      *)
(* A generator state g is the CodeGenerator's mutable state during one     *)
(* generate_function call: the current function's instruction list, the    *)
(* label counter, the loop stack, and the exception raised, if any ("" is  *)
(* no exception).  An exception propagates to generate(): once g is raised *)
(* every later operation of the call leaves g as it is.                    *)

Instruction(opcode, operand) == [opcode |-> opcode, operand |-> operand]

GenState(instrs, counter, stack) ==
    [instructions |-> instrs, label_counter |-> counter, loop_stack |-> stack,
     error |-> ""]

Raised(g) == g.error # ""

\* raise Exception(msg)
Raise(g, msg) == IF Raised(g) THEN g ELSE [g EXCEPT !.error = msg]

emit(g, opcode, operand) ==
    IF Raised(g) THEN g
    ELSE [g EXCEPT !.instructions = Append(@, Instruction(opcode, operand))]

\* The label new_label returns when the counter is n.
label_name(n) == "L" \o IntStr(n)

\* new_label increments the counter (and returns label_name of the old one).
new_label(g) ==
    IF Raised(g) THEN g ELSE [g EXCEPT !.label_counter = @ + 1]

\* patch_label rewrites every instruction whose operand == label.
patch_label(g, label) ==
    IF Raised(g) THEN g
    ELSE [g EXCEPT !.instructions =
            [i \in 1..Len(g.instructions) |->
                IF SameVal(g.instructions[i].operand, StrVal(label))
                THEN [g.instructions[i] EXCEPT !.operand = IntVal(Len(g.instructions))]
                ELSE g.instructions[i]]]

\* self.loop_stack.append((end_label, start_pos))
push_loop(g, end_label, start_pos) ==
    IF Raised(g) THEN g
    ELSE [g EXCEPT !.loop_stack = Append(@, <<end_label, start_pos>>)]

\* self.loop_stack.pop()
pop_loop(g) ==
    IF Raised(g) THEN g
    ELSE [g EXCEPT !.loop_stack = SubSeq(@, 1, Len(@) - 1)]

\* op_map of generate_binary_op (codegen.py:317-332).
BinaryOperators ==
    {"+", "-", "*", "/", "%", "**", "==", "!=", "<", ">", "<=", ">=", "and", "or"}

op_map(op) ==
    CASE op = "+"   -> "ADD"
      [] op = "-"   -> "SUB"
      [] op = "*"   -> "MUL"
      [] op = "/"   -> "DIV"
      [] op = "%"   -> "MOD"
      [] op = "**"  -> "POW"
      [] op = "=="  -> "EQ"
      [] op = "!="  -> "NE"
      [] op = "<"   -> "LT"
      [] op = ">"   -> "GT"
      [] op = "<="  -> "LE"
      [] op = ">="  -> "GE"
      [] op = "and" -> "AND"
      [] op = "or"  -> "OR"
      [] OTHER      -> ""

RECURSIVE generate_expression(_, _)
RECURSIVE generate_expressions(_, _, _)
RECURSIVE generate_statement(_, _)
RECURSIVE generate_statements(_, _, _)

generate_literal(g, lit) == emit(g, "LOAD_CONST", lit.value)

generate_identifier(g, ident) == emit(g, "LOAD_VAR", StrVal(ident.name))

\* The tail of generate_binary_op, after both operands (codegen.py:334-337).
emit_binary_operator(g, operator) ==
    IF op_map(operator) # ""
    THEN emit(g, op_map(operator), NoneVal)
    ELSE Raise(g, "Unknown binary operator: " \o operator)

\* Variant of generate_binary_op that emits the right operand's code first.
generate_binary_op_right_first(g, binop) ==
    emit_binary_operator(
        generate_expression(generate_expression(g, binop.right), binop.left),
        binop.operator)

generate_binary_op(g, binop) ==
    emit_binary_operator(
        generate_expression(generate_expression(g, binop.left), binop.right),
        binop.operator)

\* The tail of generate_unary_op, after the operand (codegen.py:343-348).
emit_unary_operator(g, operator) ==
    IF operator = "-" THEN emit(g, "NEG", NoneVal)
    ELSE IF operator = "not" THEN emit(g, "NOT", NoneVal)
    ELSE Raise(g, "Unknown unary operator: " \o operator)

generate_unary_op(g, unop) ==
    emit_unary_operator(generate_expression(g, unop.operand), unop.operator)

\* The tail of generate_call, after the arguments (codegen.py:356-369).
emit_call(g, call) ==
    IF call.function.kind = "Identifier"
    THEN IF call.function.name = "print" THEN emit(g, "PRINT", NoneVal)
         ELSE IF call.function.name = "println" THEN emit(g, "PRINTLN", NoneVal)
         ELSE emit(g, "CALL", CallVal(call.function.name, Len(call.arguments)))
    ELSE Raise(g, "Only simple function calls supported in bootstrap")

\* A variant of generate_call that generates the arguments from the last to
\* the first, used to test the property of argument order.
RECURSIVE generate_expressions_reversed(_, _, _)
generate_expressions_reversed(g, exprs, i) ==
    IF Raised(g) \/ i < 1 THEN g
    ELSE generate_expressions_reversed(generate_expression(g, exprs[i]), exprs, i - 1)

generate_call_reversed(g, call) ==
    emit_call(generate_expressions_reversed(g, call.arguments, Len(call.arguments)),
              call)

generate_call(g, call) ==
    emit_call(generate_expressions(g, call.arguments, 1), call)

generate_index(g, index) ==
    emit(generate_expression(generate_expression(g, index.object), index.index),
         "INDEX", NoneVal)

generate_list_literal(g, lst) ==
    emit(generate_expressions(g, lst.elements, 1),
         "BUILD_LIST", IntVal(Len(lst.elements)))

generate_expression(g, expr) ==
    IF Raised(g) THEN g
    ELSE CASE expr.kind = "Literal"     -> generate_literal(g, expr)
           [] expr.kind = "Identifier"  -> generate_identifier(g, expr)
           [] expr.kind = "BinaryOp"    -> generate_binary_op(g, expr)
           [] expr.kind = "UnaryOp"     -> generate_unary_op(g, expr)
           [] expr.kind = "Call"        -> generate_call(g, expr)
           [] expr.kind = "Index"       -> generate_index(g, expr)
           [] expr.kind = "ListLiteral" -> generate_list_literal(g, expr)
           [] OTHER                     -> emit(g, "LOAD_CONST", NoneVal)

\* "for arg in call.arguments: self.generate_expression(arg)", from the i-th on.
generate_expressions(g, exprs, i) ==
    IF Raised(g) \/ i > Len(exprs) THEN g
    ELSE generate_expressions(generate_expression(g, exprs[i]), exprs, i + 1)

generate_block(g, blk) == generate_statements(g, blk.statements, 1)

\* "if stmt.else_block: self.generate_block(stmt.else_block)"
generate_else_block(g, else_block) ==
    IF else_block.kind # "None" THEN generate_block(g, else_block) ELSE g

generate_return(g, ret) ==
    IF ret.value.kind # "None"
    THEN emit(generate_expression(g, ret.value), "RETURN", NoneVal)
    ELSE emit(emit(g, "LOAD_CONST", NoneVal), "RETURN", NoneVal)

\* A variant of generate_if with one line moved, used to test that the shape
\* property of if statements depends on it: the else label is patched after
\* the else block instead of before it.
if_else_patched_late(g1, if_stmt) ==
    LET else_label == label_name(g1.label_counter)
        end_label  == label_name(g1.label_counter + 1)
    IN  patch_label(
            patch_label(
                generate_else_block(
                    emit(generate_block(
                             emit(new_label(new_label(g1)),
                                  "JUMP_IF_FALSE", StrVal(else_label)),
                             if_stmt.then_block),
                         "JUMP", StrVal(end_label)),
                    if_stmt.else_block),
                else_label),
            end_label)

generate_if_else_patched_late(g, if_stmt) ==
    if_else_patched_late(generate_expression(g, if_stmt.condition), if_stmt)

\* generate_if from the new_label calls on (codegen.py:178-193); g1 is the
\* state after the condition's code.
if_after_condition(g1, if_stmt) ==
    LET else_label == label_name(g1.label_counter)
        end_label  == label_name(g1.label_counter + 1)
    IN  patch_label(
            generate_else_block(
                patch_label(
                    emit(generate_block(
                             emit(new_label(new_label(g1)),
                                  "JUMP_IF_FALSE", StrVal(else_label)),
                             if_stmt.then_block),
                         "JUMP", StrVal(end_label)),
                    else_label),
                if_stmt.else_block),
            end_label)

generate_if(g, if_stmt) ==
    if_after_condition(generate_expression(g, if_stmt.condition), if_stmt)

\* Variants of generate_while with one line changed, used to test that the
\* properties below depend on it: the end label left unpatched, the loop
\* stack left unpopped, the start position recorded after the condition.
generate_while_unpatched(g, while_stmt) ==
    LET end_label == label_name(g.label_counter)
        start_pos == Len(g.instructions)
    IN  pop_loop(
            emit(generate_block(
                     emit(generate_expression(
                              push_loop(new_label(g), end_label, start_pos),
                              while_stmt.condition),
                          "JUMP_IF_FALSE", StrVal(end_label)),
                     while_stmt.body),
                 "JUMP", IntVal(start_pos)))

generate_while_unpopped(g, while_stmt) ==
    LET end_label == label_name(g.label_counter)
        start_pos == Len(g.instructions)
    IN  patch_label(
            emit(generate_block(
                     emit(generate_expression(
                              push_loop(new_label(g), end_label, start_pos),
                              while_stmt.condition),
                          "JUMP_IF_FALSE", StrVal(end_label)),
                     while_stmt.body),
                 "JUMP", IntVal(start_pos)),
            end_label)

while_late_body(g1, while_stmt, end_label) ==
    pop_loop(
        patch_label(
            emit(generate_block(
                     emit(push_loop(g1, end_label, Len(g1.instructions)),
                          "JUMP_IF_FALSE", StrVal(end_label)),
                     while_stmt.body),
                 "JUMP", IntVal(Len(g1.instructions))),
            end_label))

generate_while_late_start(g, while_stmt) ==
    while_late_body(generate_expression(new_label(g), while_stmt.condition),
                    while_stmt, label_name(g.label_counter))

generate_while(g, while_stmt) ==
    LET end_label == label_name(g.label_counter)
        start_pos == Len(g.instructions)
    IN  pop_loop(
            patch_label(
                emit(generate_block(
                         emit(generate_expression(
                                  push_loop(new_label(g), end_label, start_pos),
                                  while_stmt.condition),
                              "JUMP_IF_FALSE", StrVal(end_label)),
                         while_stmt.body),
                     "JUMP", IntVal(start_pos)),
                end_label))

\* generate_ensure from the new_label calls on (codegen.py:226-240).
ensure_after_condition(g1, ensure_stmt) ==
    LET else_label == label_name(g1.label_counter)
        end_label  == label_name(g1.label_counter + 1)
    IN  patch_label(
            generate_else_block(
                patch_label(
                    emit(generate_block(
                             emit(new_label(new_label(g1)),
                                  "JUMP_IF_FALSE", StrVal(else_label)),
                             ensure_stmt.then_block),
                         "JUMP", StrVal(end_label)),
                    else_label),
                ensure_stmt.else_block),
            end_label)

generate_ensure(g, ensure_stmt) ==
    ensure_after_condition(generate_expression(g, ensure_stmt.condition),
                           ensure_stmt)

\* A variant of emit_compound in which every compound operator adds, used
\* to test the property of compound assignment opcodes.
emit_compound_always_add(g, assign) ==
    IF assign.operator = "=" THEN g
    ELSE emit(emit(g, "LOAD_VAR", StrVal(assign.target.name)), "ADD", NoneVal)

\* "if assign.operator != '=': LOAD_VAR target; <operation>" (codegen.py:248-261)
emit_compound(g, assign) ==
    IF assign.operator = "=" THEN g
    ELSE CASE assign.operator = "+=" ->
                  emit(emit(g, "LOAD_VAR", StrVal(assign.target.name)), "ADD", NoneVal)
           [] assign.operator = "-=" ->
                  emit(emit(g, "LOAD_VAR", StrVal(assign.target.name)), "SUB", NoneVal)
           [] assign.operator = "*=" ->
                  emit(emit(g, "LOAD_VAR", StrVal(assign.target.name)), "MUL", NoneVal)
           [] assign.operator = "/=" ->
                  emit(emit(g, "LOAD_VAR", StrVal(assign.target.name)), "DIV", NoneVal)
           [] OTHER ->
                  emit(g, "LOAD_VAR", StrVal(assign.target.name))

\* The tail of generate_assignment, after the value (codegen.py:246-263).
store_target(g, assign) ==
    IF assign.target.kind = "Identifier"
    THEN emit(emit_compound(g, assign), "STORE_VAR", StrVal(assign.target.name))
    ELSE g

\* Variant of generate_assignment that rejects a target that is not a name.
generate_assignment_name_only(g, assign) ==
    IF assign.target.kind = "Identifier"
    THEN store_target(generate_expression(g, assign.value), assign)
    ELSE Raise(generate_expression(g, assign.value), "Invalid assignment target")

generate_assignment(g, assign) ==
    store_target(generate_expression(g, assign.value), assign)

\* A variant of generate_continue that reads the bottom of the loop stack
\* instead of its top, used to test the property of continue targets.
generate_continue_outermost(g) ==
    IF g.loop_stack = <<>> THEN Raise(g, "continue outside of loop")
    ELSE emit(g, "JUMP", IntVal(g.loop_stack[1][2]))

generate_break(g) ==
    IF g.loop_stack = <<>> THEN Raise(g, "break outside of loop")
    ELSE emit(g, "JUMP", StrVal(Last(g.loop_stack)[1]))

generate_continue(g) ==
    IF g.loop_stack = <<>> THEN Raise(g, "continue outside of loop")
    ELSE emit(g, "JUMP", IntVal(Last(g.loop_stack)[2]))

generate_statement(g, stmt) ==
    IF Raised(g) THEN g
    ELSE CASE stmt.kind = "Return"     -> generate_return(g, stmt)
           [] stmt.kind = "If"         -> generate_if(g, stmt)
           [] stmt.kind = "While"      -> generate_while(g, stmt)
           [] stmt.kind = "Ensure"     -> generate_ensure(g, stmt)
           [] stmt.kind = "Assignment" -> generate_assignment(g, stmt)
           [] stmt.kind = "Break"      -> generate_break(g)
           [] stmt.kind = "Continue"   -> generate_continue(g)
           [] OTHER -> emit(generate_expression(g, stmt), "POP", NoneVal)

\* "for stmt in block.statements: self.generate_statement(stmt)", from the i-th on.
generate_statements(g, stmts, i) ==
    IF Raised(g) \/ i > Len(stmts) THEN g
    ELSE generate_statements(generate_statement(g, stmts[i]), stmts, i + 1)

\* Variant of implicit_return that never appends anything.
implicit_return_never(g) == g

\* The implicit return of generate_function (codegen.py:128-132).
implicit_return(g) ==
    IF g.instructions = <<>> \/ Last(g.instructions).opcode # "RETURN"
    THEN emit(emit(g, "LOAD_CONST", NoneVal), "RETURN", NoneVal)
    ELSE g

\* "if func.body: self.generate_block(func.body)" (codegen.py:124-126);
\* current_function is a fresh Function, so the instruction list starts empty.
function_body(counter, stack, func) ==
    IF func.body.kind # "None"
    THEN generate_block(GenState(<<>>, counter, stack), func.body)
    ELSE GenState(<<>>, counter, stack)

\* The state after the body code (.body) and the final state (.out).
function_result(g1) == [body |-> g1, out |-> implicit_return(g1)]

\* generate_function, from the generator's counter and loop stack.
generate_function(counter, stack, func) ==
    function_result(function_body(counter, stack, func))

\* The compiled Function (codegen.py:75-82) generate_function stores.
CompiledFunction(func, instrs) ==
    [name |-> func.name,
     param_count |-> Len(func.inputs),
     param_names |-> [i \in 1..Len(func.inputs) |-> func.inputs[i].name],
     instructions |-> instrs]

\* self.module.functions[func.name] = compiled_func
StoreFunction(m, cf) ==
    [n \in DOMAIN m \cup {cf.name} |-> IF n = cf.name THEN cf ELSE m[n]]

-----------------------------------------------------------------------------
(* CodeGenerator.generate (codegen.py:102-109) as actions: one action per  *)
(* iteration of its loop over program.declarations, one for its return.    *)

LexIdle ==
    /\ source = <<>> /\ pos = 0 /\ line = 1 /\ column = 1
    /\ tokens = <<>> /\ starts = <<>>
    /\ lex_status = "idle" /\ lex_error = NoError

ParseIdle ==
    /\ current = 0 /\ pc = "idle" /\ function = NoneNode /\ params = <<>>
    /\ program = Program(<<>>)
    /\ parse_status = "idle" /\ parse_error = NoError /\ iters = 0
    /\ parse_runs = <<>>

CheckIdle ==
    /\ global_env = <<>> /\ errors = <<>>
    /\ check_status = "idle" /\ check_idx = 1 /\ check_runs = <<>>

\* CodeGenerator.__init__ (codegen.py:96-100)
GenInit ==
    /\ module = <<>> /\ label_counter = 0 /\ loop_stack = <<>>
    /\ gen_idx = 1 /\ gen_error = "" /\ gen_log = <<>>

GenIdle == GenInit /\ gen_status = "idle"

\* The effect on the generator of one generate_function call with result r:
\* the function is stored, or the exception leaves generate().
FunctionGenerated(func, r) ==
    /\ label_counter' = r.out.label_counter
    /\ loop_stack' = r.out.loop_stack
    /\ gen_log' = Append(gen_log,
                         [name    |-> func.name,
                          counter |-> label_counter,
                          stack   |-> loop_stack,
                          body    |-> r.body.instructions,
                          code    |-> r.out.instructions,
                          error   |-> r.out.error])
    /\ IF Raised(r.out)
       THEN /\ gen_status' = "raised"
            /\ gen_error' = r.out.error
            /\ UNCHANGED <<module, gen_idx>>
       ELSE /\ module' = StoreFunction(module,
                             CompiledFunction(func, r.out.instructions))
            /\ gen_idx' = gen_idx + 1
            /\ UNCHANGED <<gen_status, gen_error>>

\* One iteration of "for decl in program.declarations" (codegen.py:105-107):
\* the whole generate_function call, or the exception it raises.
GenerateFunction ==
    /\ stage = "generate"
    /\ gen_status = "running"
    /\ gen_idx <= Len(program.declarations)
    /\ FunctionGenerated(program.declarations[gen_idx],
                         generate_function(label_counter, loop_stack,
                                           program.declarations[gen_idx]))
    /\ UNCHANGED <<lexVars, parseVars, checkVars, stage>>

\* "return self.module" (codegen.py:109)
GenerateReturn ==
    /\ stage = "generate"
    /\ gen_status = "running"
    /\ gen_idx > Len(program.declarations)
    /\ gen_status' = "returned"
    /\ UNCHANGED <<module, label_counter, loop_stack, gen_idx, gen_error, gen_log>>
    /\ UNCHANGED <<lexVars, parseVars, checkVars, stage>>

-----------------------------------------------------------------------------
(* Programs given to the checker and the generator: every function body of *)
(* at most MaxNodes statement nodes over the statement kinds below.        *)

MaxNodes == 3

L1 == Loc(1, 1)

VarX  == Identifier(L1, "x")
Lit1  == Literal(L1, IntVal(1))
Lit3  == Literal(L1, IntVal(3))

CondExprs == {BinaryOp(L1, VarX, "<", Lit3)}

LeafStmts ==
    { Break(L1), Continue(L1), Return(L1, VarX),
      Assignment(L1, VarX, Lit1, "+=") }

\* SizeTable(n)[k + 1] holds the statements (.stmts) and the statement lists
\* (.blocks) made of exactly k statement nodes, for k = 0..n.
RECURSIVE SizeTable(_)
SizeTable(n) ==
    IF n = 0 THEN << [stmts |-> {}, blocks |-> {<<>>}] >>
    ELSE LET prev == SizeTable(n - 1)
             B(k) == prev[k + 1].blocks
             Sn == (IF n = 1 THEN LeafStmts ELSE {})
                   \cup { While(L1, c, Block(L1, b)) : c \in CondExprs, b \in B(n - 1) }
                   \cup { If(L1, c, Block(L1, t), NoneNode) :
                              c \in CondExprs, t \in B(n - 1) }
                   \cup UNION { { If(L1, c, Block(L1, t), Block(L1, e)) :
                                      c \in CondExprs, t \in B(a), e \in B(n - 1 - a) } :
                                a \in 0..(n - 1) }
             S(k) == IF k = n THEN Sn ELSE prev[k + 1].stmts
             Bn == UNION { { <<st>> \o b : st \in S(k), b \in B(n - k) } : k \in 1..n }
         IN  Append(prev, [stmts |-> Sn, blocks |-> Bn])

Sizes == SizeTable(MaxNodes)

BlocksOfSize(n) == Sizes[n + 1].blocks

BlocksUpTo(n) == UNION { BlocksOfSize(k) : k \in 0..n }

\* The same statements spelt ensure/otherwise instead of if/else.
RECURSIVE ToEnsure(_)
ToEnsureBlock(b) ==
    IF b.kind = "None" THEN b
    ELSE Block(b.location, [i \in 1..Len(b.statements) |-> ToEnsure(b.statements[i])])

ToEnsure(st) ==
    CASE st.kind = "If" ->
            Ensure(st.location, st.condition, ToEnsureBlock(st.then_block),
                   ToEnsureBlock(st.else_block))
      [] st.kind = "While" ->
            While(st.location, st.condition, ToEnsureBlock(st.body))
      [] OTHER -> st

ParamX == Parameter(L1, "x", TypeAnnotation(L1, "Integer", <<>>))

Func(name, ins, stmts) == Function(L1, name, ins, <<>>, <<>>, Block(L1, stmts))

\* Statements without control flow: a member expression, assignments to an
\* index and to a member target, print/println with no and with two
\* arguments, calls of a name and of a member, unary operators with and
\* without an opcode, a binary operator without an opcode (a node built
\* directly, the parser has no such operator), returns, and plain and
\* compound assignments to a name.
MemberXY == Member(L1, VarX, "y")

ExprStmts ==
    { MemberXY,
      Assignment(L1, Index(L1, VarX, Lit1), Lit1, "="),
      Assignment(L1, MemberXY, Lit1, "+="),
      Call(L1, Identifier(L1, "print"), <<>>),
      Call(L1, Identifier(L1, "println"), <<Lit1, VarX>>),
      Call(L1, Identifier(L1, "f"), <<Lit1>>),
      Call(L1, MemberXY, <<Lit1>>),
      UnaryOp(L1, "~", VarX),
      UnaryOp(L1, "not", UnaryOp(L1, "-", VarX)),
      BinaryOp(L1, VarX, "@", Lit1),
      Return(L1, ListLiteral(L1, <<Index(L1, VarX, Lit1)>>)),
      Return(L1, NoneNode),
      Assignment(L1, VarX, Lit3, "="),
      Assignment(L1, VarX, Lit3, "-="),
      Assignment(L1, VarX, BinaryOp(L1, VarX, "+", Lit1), "*="),
      Assignment(L1, VarX, Lit3, "/=") }

ExprBodies == UNION { [1..n -> ExprStmts] : n \in 1..MaxNodes }

\* One function of up to MaxNodes statements; its ensure spelling; two
\* functions, the first of up to MaxNodes - 1 statements and the second, of
\* one statement, possibly redefining the first; and one function of up to
\* MaxNodes statements without control flow.
GenPrograms ==
    { Program(<<Func("main", <<ParamX>>, b)>>) : b \in BlocksUpTo(MaxNodes) }
    \cup { Program(<<Func("main", <<ParamX>>, ToEnsureBlock(Block(L1, b)).statements)>>) :
               b \in BlocksUpTo(MaxNodes) }
    \cup { Program(<<Func("f", <<>>, b1), Func(n2, <<ParamX>>, b2)>>) :
               b1 \in BlocksUpTo(MaxNodes - 1), b2 \in BlocksOfSize(1),
               n2 \in {"f", "main"} }
    \cup { Program(<<Func("main", <<ParamX>>, b)>>) : b \in ExprBodies }

\* generate_bytecode(program) on a program of GenPrograms.
InitGen ==
    /\ LexIdle
    /\ current = 0 /\ pc = "idle" /\ function = NoneNode /\ params = <<>>
    /\ parse_status = "idle" /\ parse_error = NoError /\ iters = 0
    /\ parse_runs = <<>>
    /\ program \in GenPrograms
    /\ CheckIdle
    /\ GenInit /\ gen_status = "running"
    /\ stage = "generate"

NextGen == GenerateFunction \/ GenerateReturn

SpecGen == InitGen /\ [][NextGen]_vars

-----------------------------------------------------------------------------
(* The number of instructions the generator emits for a node, read off the *)
(* emit calls of each generate_* method; used to locate a statement's code *)
(* in a finished function.                                                 *)

RECURSIVE ExprSize(_)
RECURSIVE ExprsSize(_, _)
RECURSIVE StmtSize(_)
RECURSIVE StmtsSize(_, _)

ExprSize(e) ==
    CASE e.kind \in {"Literal", "Identifier"} -> 1
      [] e.kind = "BinaryOp"    -> ExprSize(e.left) + ExprSize(e.right) + 1
      [] e.kind = "UnaryOp"     -> ExprSize(e.operand) + 1
      [] e.kind = "Call"        -> ExprsSize(e.arguments, 1) + 1
      [] e.kind = "Index"       -> ExprSize(e.object) + ExprSize(e.index) + 1
      [] e.kind = "ListLiteral" -> ExprsSize(e.elements, 1) + 1
      [] OTHER                  -> 1

ExprsSize(es, i) ==
    IF i > Len(es) THEN 0 ELSE ExprSize(es[i]) + ExprsSize(es, i + 1)

BlockSize(b) == IF b.kind = "None" THEN 0 ELSE StmtsSize(b.statements, 1)

StmtSize(st) ==
    CASE st.kind = "Return" ->
            (IF st.value.kind = "None" THEN 1 ELSE ExprSize(st.value)) + 1
      [] st.kind \in {"If", "Ensure"} ->
            ExprSize(st.condition) + 1 + BlockSize(st.then_block) + 1
            + BlockSize(st.else_block)
      [] st.kind = "While" ->
            ExprSize(st.condition) + 1 + BlockSize(st.body) + 1
      [] st.kind = "Assignment" ->
            ExprSize(st.value)
            + (IF st.target.kind = "Identifier"
               THEN (IF st.operator = "=" THEN 1 ELSE 3) ELSE 0)
      [] st.kind \in {"Break", "Continue"} -> 1
      [] OTHER -> ExprSize(st) + 1

StmtsSize(sts, i) ==
    IF i > Len(sts) THEN 0 ELSE StmtSize(sts[i]) + StmtsSize(sts, i + 1)

\* Walking sts[i..] at loop depth d: the number of instructions emitted before
\* the first break/continue met at depth 0 (stray is its kind), or all of
\* them (stray = "").
RECURSIVE UntilStray(_, _, _)
UntilStray(sts, i, d) ==
    IF i > Len(sts) THEN [n |-> 0, stray |-> ""]
    ELSE
    LET st == sts[i]
        Blk(b, dd) == IF b.kind = "None" THEN [n |-> 0, stray |-> ""]
                      ELSE UntilStray(b.statements, 1, dd)
        here ==
          CASE st.kind \in {"Break", "Continue"} ->
                  IF d = 0 THEN [n |-> 0, stray |-> st.kind]
                  ELSE [n |-> 1, stray |-> ""]
            [] st.kind \in {"If", "Ensure"} ->
                  LET t == Blk(st.then_block, d)
                      e == Blk(st.else_block, d)
                  IN  IF t.stray # ""
                      THEN [n |-> ExprSize(st.condition) + 1 + t.n, stray |-> t.stray]
                      ELSE [n |-> ExprSize(st.condition) + 1 + t.n + 1 + e.n,
                            stray |-> e.stray]
            [] st.kind = "While" ->
                  LET b == Blk(st.body, d + 1)
                  IN  [n |-> ExprSize(st.condition) + 1 + b.n + 1, stray |-> ""]
            [] OTHER -> [n |-> StmtSize(st), stray |-> ""]
    IN  IF here.stray # "" THEN here
        ELSE LET rest == UntilStray(sts, i + 1, d)
             IN  [n |-> here.n + rest.n, stray |-> rest.stray]

\* Does the statement list contain a node of this kind, at any depth?
RECURSIVE HasKind(_, _)
HasKind(sts, kind) ==
    \E i \in 1..Len(sts) :
        LET st == sts[i]
            In(b) == b.kind # "None" /\ HasKind(b.statements, kind)
        IN  \/ st.kind = kind
            \/ st.kind \in {"If", "Ensure"} /\ (In(st.then_block) \/ In(st.else_block))
            \/ st.kind = "While" /\ In(st.body)

-----------------------------------------------------------------------------
(* Properties of the code generator (checked under SpecGen).               *)

\* The k-th generate_function call was for program.declarations[k].
GenFunc(k) == program.declarations[k]

\* The generate_function call that stored the function now in module[name].
StoredBy(name) ==
    CHOOSE k \in 1..Len(gen_log) :
        /\ gen_log[k].name = name /\ gen_log[k].error = ""
        /\ \A j \in (k + 1)..Len(gen_log) :
               ~(gen_log[j].name = name /\ gen_log[j].error = "")

ImplicitReturnCode ==
    << Instruction("LOAD_CONST", NoneVal), Instruction("RETURN", NoneVal) >>

\* C2: every function of the module generate returns has a non-empty
\* instruction list whose last instruction is RETURN; LOAD_CONST None, RETURN
\* are appended to the body code exactly when that code is empty or does not
\* end with RETURN, and nothing is appended otherwise.
C2_FunctionEndsInReturn ==
    gen_status = "returned" =>
        \A name \in DOMAIN module :
            LET code == module[name].instructions
                body == gen_log[StoredBy(name)].body
            IN  /\ code # <<>>
                /\ Last(code).opcode = "RETURN"
                /\ IF body = <<>> \/ Last(body).opcode # "RETURN"
                   THEN code = body \o ImplicitReturnCode
                   ELSE code = body

\* C2 witness: a returned module holding a function whose body ended in an
\* explicit RETURN (nothing appended) and one whose body did not.
C2_Witness ==
    /\ gen_status = "returned"
    /\ \E n1, n2 \in DOMAIN module :
          LET b1 == gen_log[StoredBy(n1)].body
              b2 == gen_log[StoredBy(n2)].body
          IN  /\ b1 # <<>> /\ Last(b1).opcode = "RETURN"
              /\ module[n1].instructions = b1
              /\ b2 # <<>> /\ Last(b2).opcode # "RETURN"
              /\ Len(module[n2].instructions) = Len(b2) + 2

JumpOpcodes == {"JUMP", "JUMP_IF_FALSE", "JUMP_IF_TRUE"}

\* C3: when generate_function returns, no jump instruction of the function
\* has a symbolic label as operand: every jump operand is an integer index.
C3_NoSymbolicLabel ==
    \A k \in 1..Len(gen_log) :
        gen_log[k].error = "" =>
            \A i \in 1..Len(gen_log[k].code) :
                gen_log[k].code[i].opcode \in JumpOpcodes =>
                    gen_log[k].code[i].operand.t = "int"

\* C3 witness: a function with a break inside a while inside an if (three
\* labels allocated, one of them referenced by the break) was generated.
C3_Witness ==
    \E k \in 1..Len(gen_log) :
        /\ gen_log[k].error = ""
        /\ label_counter >= gen_log[k].counter + 3
        /\ HasKind(GenFunc(k).body.statements, "If")
        /\ HasKind(GenFunc(k).body.statements, "While")
        /\ HasKind(GenFunc(k).body.statements, "Break")

StrayMessage(kind) ==
    IF kind = "Break" THEN "break outside of loop" ELSE "continue outside of loop"

\* C4: a break or continue outside every while loop of its function makes
\* generate raise the matching error when it is reached: no instruction is
\* emitted for it (the instruction list is the code before it), the function
\* is not stored, and no module is returned; whatever was generated before.
C4_StrayBreakRaises ==
    /\ \A k \in 1..Len(gen_log) :
          LET u == UntilStray(GenFunc(k).body.statements, 1, 0)
          IN  u.stray # "" =>
                  /\ gen_log[k].error = StrayMessage(u.stray)
                  /\ Len(gen_log[k].code) = u.n
                  /\ gen_status = "raised" /\ gen_error = gen_log[k].error
                  /\ gen_idx = k
    /\ gen_status = "returned" =>
          \A k \in 1..Len(program.declarations) :
              UntilStray(GenFunc(k).body.statements, 1, 0).stray = ""

\* C4 witness: generation raised on a stray break in the second function,
\* after a first function that contained a while loop.
C4_Witness ==
    /\ gen_status = "raised" /\ gen_error = "break outside of loop"
    /\ gen_idx = 2
    /\ HasKind(GenFunc(1).body.statements, "While")
    /\ HasKind(GenFunc(2).body.statements, "Break")

\* The opcodes of the code generate_expression emits for e from scratch.
ExprOpcodes(e) ==
    LET c == generate_expression(GenState(<<>>, 0, <<>>), e).instructions
    IN  [i \in 1..Len(c) |-> c[i].opcode]

\* Every while loop among sts[i..], whose code starts at index off (0-based)
\* of code, has the shape: condition code at s, JUMP_IF_FALSE e, body code,
\* JUMP s, with e the index just after the backward JUMP.
RECURSIVE WhilesShaped(_, _, _, _)
WhilesShaped(code, sts, i, off) ==
    IF i > Len(sts) THEN TRUE
    ELSE
    LET st == sts[i]
        c  == ExprSize(st.condition)
        In(b, o) == b.kind = "None" \/ WhilesShaped(code, b.statements, 1, o)
        here ==
          CASE st.kind = "While" ->
                  LET e == off + c + 1 + BlockSize(st.body) + 1
                  IN  /\ [j \in 1..c |-> code[off + j].opcode] = ExprOpcodes(st.condition)
                      /\ code[off + c + 1] = Instruction("JUMP_IF_FALSE", IntVal(e))
                      /\ code[e] = Instruction("JUMP", IntVal(off))
                      /\ In(st.body, off + c + 1)
            [] st.kind \in {"If", "Ensure"} ->
                  /\ In(st.then_block, off + c + 1)
                  /\ In(st.else_block, off + c + 1 + BlockSize(st.then_block) + 1)
            [] OTHER -> TRUE
    IN  here /\ WhilesShaped(code, sts, i + 1, off + StmtSize(st))

WhileXLt3 ==
    While(L1, BinaryOp(L1, VarX, "<", Lit3),
          Block(L1, <<Assignment(L1, VarX, Lit1, "+=")>>))

\* C5: every while loop compiles to condition code at s, JUMP_IF_FALSE e,
\* body code, JUMP s, where s is the index of the first condition instruction
\* and e the index just after the backward JUMP; for "while x < 3: x += 1"
\* the instruction before the backward JUMP is STORE_VAR x.
C5_WhileShape ==
    \A k \in 1..Len(gen_log) :
        gen_log[k].error = "" =>
            /\ WhilesShaped(gen_log[k].code, GenFunc(k).body.statements, 1, 0)
            /\ GenFunc(k).body.statements = <<WhileXLt3>> =>
                  /\ gen_log[k].code[8] = Instruction("STORE_VAR", StrVal("x"))
                  /\ gen_log[k].code[9] = Instruction("JUMP", IntVal(0))
                  /\ gen_log[k].code[1] = Instruction("LOAD_VAR", StrVal("x"))
                  /\ gen_log[k].code[4] = Instruction("JUMP_IF_FALSE", IntVal(9))

\* C5 witness: "while x < 3: x += 1" was generated, and so was a loop nested
\* in an if that does not start at index 0.
C5_Witness ==
    /\ gen_status = "returned"
    /\ \/ GenFunc(1).body.statements = <<WhileXLt3>>
       \/ /\ Len(GenFunc(1).body.statements) = 2
          /\ GenFunc(1).body.statements[2].kind = "While"
          /\ HasKind(<<GenFunc(1).body.statements[2]>>, "Continue")

-----------------------------------------------------------------------------
(* Causes of a generation error (checked under SpecGen).                   *)

\* The messages of the constructs generate_expression meets in e that have
\* no code: a unary or binary operator without an opcode, a call whose
\* target is not a name.  A member's object, a call's target and an
\* assignment's target are never generated.
RECURSIVE ExprCauses(_)
ExprCauses(e) ==
    CASE e.kind = "UnaryOp" ->
            (IF e.operator \in {"-", "not"} THEN {}
             ELSE {"Unknown unary operator: " \o e.operator})
            \cup ExprCauses(e.operand)
      [] e.kind = "BinaryOp" ->
            (IF e.operator \in BinaryOperators THEN {}
             ELSE {"Unknown binary operator: " \o e.operator})
            \cup ExprCauses(e.left) \cup ExprCauses(e.right)
      [] e.kind = "Call" ->
            (IF e.function.kind = "Identifier" THEN {}
             ELSE {"Only simple function calls supported in bootstrap"})
            \cup UNION { ExprCauses(e.arguments[i]) : i \in 1..Len(e.arguments) }
      [] e.kind = "Index" -> ExprCauses(e.object) \cup ExprCauses(e.index)
      [] e.kind = "ListLiteral" ->
            UNION { ExprCauses(e.elements[i]) : i \in 1..Len(e.elements) }
      [] OTHER -> {}

\* The same for the statements sts at loop depth d, with the break and
\* continue statements outside every loop.
RECURSIVE StmtsCauses(_, _)
StmtsCauses(sts, d) ==
    UNION { LET st == sts[i]
                In(b, dd) == IF b.kind = "None" THEN {}
                             ELSE StmtsCauses(b.statements, dd)
            IN  CASE st.kind \in {"Break", "Continue"} ->
                        IF d = 0 THEN {StrayMessage(st.kind)} ELSE {}
                  [] st.kind \in {"If", "Ensure"} ->
                        ExprCauses(st.condition) \cup In(st.then_block, d)
                            \cup In(st.else_block, d)
                  [] st.kind = "While" ->
                        ExprCauses(st.condition) \cup In(st.body, d + 1)
                  [] st.kind = "Return" ->
                        IF st.value.kind = "None" THEN {}
                        ELSE ExprCauses(st.value)
                  [] st.kind = "Assignment" -> ExprCauses(st.value)
                  [] OTHER -> ExprCauses(st)
            : i \in 1..Len(sts) }

\* C13: generate raises only for a break or continue outside every loop, an
\* operator without an opcode, or a call whose target is not a name: a
\* function whose body has none of these is generated and stored, whatever
\* else it contains (member expressions, assignments to index and member
\* targets, print/println with any number of arguments), and a program
\* without them yields a module.
C13_OnlyStructuralErrors ==
    /\ \A k \in 1..Len(gen_log) :
          /\ gen_log[k].error # "" =>
                gen_log[k].error \in StmtsCauses(GenFunc(k).body.statements, 0)
          /\ StmtsCauses(GenFunc(k).body.statements, 0) = {} =>
                /\ gen_log[k].error = ""
                /\ gen_log[k].name \in DOMAIN module
    /\ gen_status = "raised" =>
          /\ Len(gen_log) = gen_idx
          /\ gen_error = gen_log[gen_idx].error
          /\ gen_error # ""
    /\ (\A k \in 1..Len(program.declarations) :
            StmtsCauses(GenFunc(k).body.statements, 0) = {}) =>
          /\ gen_status # "raised"
          /\ Len(gen_log) = gen_idx - 1

\* generate returned the module of a function made of a member expression,
\* an assignment to an index target and a print call without arguments.
C13_Witness ==
    /\ gen_status = "returned"
    /\ Len(program.declarations) = 1
    /\ Len(GenFunc(1).body.statements) = 3
    /\ GenFunc(1).body.statements[1].kind = "Member"
    /\ GenFunc(1).body.statements[2].kind = "Assignment"
    /\ GenFunc(1).body.statements[2].target.kind = "Index"
    /\ GenFunc(1).body.statements[3].kind = "Call"
    /\ GenFunc(1).body.statements[3].arguments = <<>>
    /\ "main" \in DOMAIN module
    /\ Len(module["main"].instructions) = 7

-----------------------------------------------------------------------------
(* Lexer.tokenize (lexer.py:331-490) as actions: one action per branch of  *)
(* its loop body, each a whole iteration starting with skip_whitespace,    *)
(* and one for the end of input.                                           *)

\* The cursor after the skip_whitespace that starts an iteration.
AtChar == skip_whitespace(Cursor)

\* The iteration takes this branch.
Tokenizing(branch) ==
    /\ stage = "lex"
    /\ lex_status = "running"
    /\ ~is_at_end(Cursor)
    /\ ~is_at_end(AtChar)
    /\ tokenize_branch(AtChar) = branch

\* The effect of an iteration that scanned r from offset start: the cursor
\* moves, and the token is appended or the exception leaves tokenize.
Tokenized(r, start) ==
    /\ pos' = r.c.pos
    /\ line' = r.c.line
    /\ column' = r.c.column
    /\ tokens' = IF r.err = NoError /\ r.tok.type # ""
                 THEN Append(tokens, r.tok) ELSE tokens
    /\ starts' = IF r.err = NoError /\ r.tok.type # ""
                 THEN Append(starts, start) ELSE starts
    /\ lex_status' = IF r.err = NoError THEN lex_status ELSE "raised"
    /\ lex_error' = r.err
    /\ UNCHANGED <<source, parseVars, checkVars, genVars, stage>>

TokenizeLineComment ==
    /\ Tokenizing("line_comment")
    /\ Tokenized(Scanned(skip_line_comment(AtChar), NoToken, NoError), AtChar.pos)

TokenizeBlockComment ==
    /\ Tokenizing("block_comment")
    /\ Tokenized(skip_block_comment(advance(AtChar)), AtChar.pos)

TokenizeNewline ==
    /\ Tokenizing("newline")
    /\ Tokenized(Scanned(advance(AtChar),
                         Token("NEWLINE", "\\n", current_location(AtChar), NoneVal),
                         NoError),
                 AtChar.pos)

TokenizeString ==
    /\ Tokenizing("string")
    /\ Tokenized(tokenize_string(AtChar), AtChar.pos)

TokenizeNumber ==
    /\ Tokenizing("number")
    /\ Tokenized(tokenize_number(AtChar), AtChar.pos)

TokenizeIdentifier ==
    /\ Tokenizing("identifier")
    /\ Tokenized(tokenize_identifier(AtChar), AtChar.pos)

TokenizeTwoChar ==
    /\ Tokenizing("two_char")
    /\ Tokenized(Scanned(advance(advance(AtChar)),
                         Token(two_char_tokens(peek(AtChar, 0) \o peek(AtChar, 1)),
                               peek(AtChar, 0) \o peek(AtChar, 1),
                               current_location(AtChar), NoneVal),
                         NoError),
                 AtChar.pos)

TokenizeSingleChar ==
    /\ Tokenizing("single_char")
    /\ Tokenized(Scanned(advance(AtChar),
                         Token(single_char_tokens(peek(AtChar, 0)), peek(AtChar, 0),
                               current_location(AtChar), NoneVal),
                         NoError),
                 AtChar.pos)

TokenizeUnexpected ==
    /\ Tokenizing("unexpected")
    /\ Tokenized(Scanned(AtChar, NoToken,
                         LexerError("Unexpected character: '" \o peek(AtChar, 0) \o "'",
                                    current_location(AtChar))),
                 AtChar.pos)

\* Variant of TokenizeReturn that places EOF where the last iteration ended,
\* before the trailing whitespace.
TokenizeReturn_before_skip ==
    /\ stage = "lex"
    /\ lex_status = "running"
    /\ is_at_end(AtChar)
    /\ pos' = AtChar.pos
    /\ line' = AtChar.line
    /\ column' = AtChar.column
    /\ tokens' = Append(tokens, Token("EOF", "", current_location(Cursor), NoneVal))
    /\ starts' = Append(starts, AtChar.pos)
    /\ lex_status' = "returned"
    /\ UNCHANGED <<source, lex_error, parseVars, checkVars, genVars, stage>>

\* The loop ends (at its test, or at the break after skip_whitespace): the
\* EOF token is appended and tokenize returns (lexer.py:332-336, 479-482).
TokenizeReturn ==
    /\ stage = "lex"
    /\ lex_status = "running"
    /\ is_at_end(AtChar)
    /\ pos' = AtChar.pos
    /\ line' = AtChar.line
    /\ column' = AtChar.column
    /\ tokens' = Append(tokens, Token("EOF", "", current_location(AtChar), NoneVal))
    /\ starts' = Append(starts, AtChar.pos)
    /\ lex_status' = "returned"
    /\ UNCHANGED <<source, lex_error, parseVars, checkVars, genVars, stage>>

Tokenize ==
    \/ TokenizeLineComment \/ TokenizeBlockComment \/ TokenizeNewline
    \/ TokenizeString \/ TokenizeNumber \/ TokenizeIdentifier
    \/ TokenizeTwoChar \/ TokenizeSingleChar \/ TokenizeUnexpected
    \/ TokenizeReturn

\* Sources: every string of up to MaxLen characters of LexAlphabet.
MaxLen == 4

LexAlphabet ==
    {"a", "b", "1", "+", "=", ".", " ", "\n", "\"", "\\", "/", "*", "@",
     "é", "²", "½", "π", "០"}

SeqsUpTo(S, n) == UNION { [1..k -> S] : k \in 0..n }

LexSources == SeqsUpTo(LexAlphabet, MaxLen)

\* Lexer(source).tokenize() on a source of LexSources.
InitLex ==
    /\ source \in LexSources
    /\ pos = 0 /\ line = 1 /\ column = 1
    /\ tokens = <<>> /\ starts = <<>>
    /\ lex_status = "running" /\ lex_error = NoError
    /\ ParseIdle /\ CheckIdle /\ GenIdle
    /\ stage = "lex"

SpecLex == InitLex /\ [][Tokenize]_vars

\* A Lexer used through its public methods that change its state, as a
\* caller of the class may use them: tokenize, match and add_token, in any
\* order and any number of times.  The calls are sequential, so match and
\* add_token happen while no call of tokenize is running.

\* The calls that add tokens are made while fewer than MaxAdded tokens
\* exist.
MaxAdded == 3

\* lexer.tokenize() is called (lexer.py:331-336), for the first time or
\* again: nothing is reset, the loop goes on from the cursor and the tokens
\* of the calls before stay in self.tokens, so a call after one that
\* returned appends one more EOF.
TokenizeCall ==
    /\ stage = "lex"
    /\ lex_status \in {"idle", "returned", "raised"}
    /\ Len(tokens) < MaxAdded
    /\ lex_status' = "running"
    /\ lex_error' = NoError
    /\ UNCHANGED <<source, pos, line, column, tokens, starts,
                   parseVars, checkVars, genVars, stage>>

\* lexer.match(expected) (lexer.py:212-219): the cursor moves over the
\* current character if it is the expected one.
Match ==
    /\ stage = "lex"
    /\ lex_status # "running"
    /\ \E expected \in LexAlphabet :
          /\ pos' = lexer_match(Cursor, expected).c.pos
          /\ line' = lexer_match(Cursor, expected).c.line
          /\ column' = lexer_match(Cursor, expected).c.column
    /\ UNCHANGED <<source, tokens, starts, lex_status, lex_error,
                   parseVars, checkVars, genVars, stage>>

\* lexer.add_token(token_type) and lexer.add_token(token_type, lexeme)
\* (lexer.py:324-329): a token at the current location is appended; the
\* cursor stays.
AddToken ==
    /\ stage = "lex"
    /\ lex_status # "running"
    /\ Len(tokens) < MaxAdded
    /\ \E token_type \in {"PLUS"},
          lexeme \in {NoneVal, StrVal("a"), StrVal("None")} :
          tokens' = add_token(tokens, Cursor, token_type, lexeme, NoneVal)
    /\ starts' = Append(starts, pos)
    /\ UNCHANGED <<source, pos, line, column, lex_status, lex_error,
                   parseVars, checkVars, genVars, stage>>

\* Lexer(source) on a source of up to two characters, no method called yet
\* (lexer.py:173-179).
InitLexer ==
    /\ source \in LexSources
    /\ Len(source) <= 2
    /\ pos = 0 /\ line = 1 /\ column = 1
    /\ tokens = <<>> /\ starts = <<>>
    /\ lex_status = "idle" /\ lex_error = NoError
    /\ ParseIdle /\ CheckIdle /\ GenIdle
    /\ stage = "lex"

LexerCalls == TokenizeCall \/ Tokenize \/ Match \/ AddToken

SpecLexer == InitLexer /\ [][LexerCalls]_vars

-----------------------------------------------------------------------------
(* Properties of the lexer (checked under SpecLex).  Lines and columns are *)
(* counted here from the source text alone: p is a 0-based offset.         *)

\* The offset just after the last newline before offset p, or 0.
LineStart(p) ==
    IF \E i \in 1..p : source[i] = "\n"
    THEN CHOOSE i \in 1..p :
             source[i] = "\n" /\ \A j \in (i + 1)..p : source[j] # "\n"
    ELSE 0

LineAt(p) == 1 + Cardinality({ i \in 1..p : source[i] = "\n" })

ColumnAt(p) == p - LineStart(p) + 1

LocationAt(p) == Loc(LineAt(p), ColumnAt(p))

\* The character ch can start the token tok.
StartsToken(ch, tok) ==
    CASE tok.type = "NEWLINE"              -> ch = "\n"
      [] tok.type = "STRING"               -> ch = "\""
      [] tok.type \in {"INTEGER", "FLOAT"} -> isdigit(ch)
      [] tok.type = "IDENTIFIER"           -> isalpha(ch) \/ ch = "_"
      [] OTHER -> \/ tok.lexeme = ch
                  \/ \E d \in LexAlphabet : tok.lexeme = ch \o d

SourceAPlusB == <<"a", "+", "b">>

\* C8: when tokenize reaches a string literal's opening quote and no double
\* quote follows it before the end of input, it raises a LexerError located
\* at the opening quote, whatever the characters after it.
C8_UnterminatedStringAtQuote ==
    [][ ( /\ Tokenizing("string")
          /\ \A j \in (AtChar.pos + 2)..Len(source) : source[j] # "\"" )
        => ( /\ lex_status' = "raised"
             /\ lex_error'.location = current_location(AtChar) ) ]_vars

\* C8, reached: a string opened on the first line ran to the end of input
\* through a final backslash on the second line, and the error raised is
\* located there, not at the opening quote.
C8_Reached ==
    /\ lex_status = "raised"
    /\ Len(source) = 4
    /\ source[1] = "\"" /\ source[3] = "\n" /\ source[4] = "\\"
    /\ source[2] = "a"
    /\ lex_error = LexerError("Unknown escape sequence: \\None", Loc(2, 2))

\* C9: every token carries the 1-based line and column of its first
\* character (a newline starts a new line at column 1), and "a+b" yields
\* IDENTIFIER a at column 1, PLUS at column 2, IDENTIFIER b at column 3, then
\* EOF, all on line 1.
C9_TokenLocations ==
    /\ Len(starts) = Len(tokens)
    /\ \A i \in 1..Len(tokens) :
          /\ tokens[i].location = LocationAt(starts[i])
          /\ tokens[i].type # "EOF" =>
                /\ starts[i] < Len(source)
                /\ StartsToken(source[starts[i] + 1], tokens[i])
          /\ i > 1 => starts[i - 1] < starts[i]
    /\ source = SourceAPlusB =>
          /\ lex_status # "raised"
          /\ lex_status = "returned" =>
                tokens = << Token("IDENTIFIER", "a", Loc(1, 1), NoneVal),
                            Token("PLUS", "+", Loc(1, 2), NoneVal),
                            Token("IDENTIFIER", "b", Loc(1, 3), NoneVal),
                            Token("EOF", "", Loc(1, 4), NoneVal) >>

\* C9 witness: a token on the second line, after a token on the first line
\* and the NEWLINE token between them.
C9_Witness ==
    /\ lex_status = "returned"
    /\ Len(tokens) = 4
    /\ tokens[2].type = "NEWLINE"
    /\ tokens[1].location = Loc(1, 2)
    /\ tokens[3].type = "IDENTIFIER" /\ tokens[3].location = Loc(2, 1)

\* C10: when tokenize has returned, the tokens hold exactly one EOF token,
\* the last one, located just after the last character of the source, all of
\* which was consumed; before that they hold none.
C10_SingleEOF ==
    /\ lex_status = "returned" =>
          /\ tokens # <<>>
          /\ Last(tokens).type = "EOF"
          /\ Last(tokens).location = LocationAt(Len(source))
          /\ pos = Len(source)
          /\ \A i \in 1..(Len(tokens) - 1) : tokens[i].type # "EOF"
    /\ lex_status # "returned" =>
          \A i \in 1..Len(tokens) : tokens[i].type # "EOF"

\* C10 witness: tokenize returned on a source of two lines that ends in
\* whitespace after its last token.
C10_Witness ==
    /\ lex_status = "returned"
    /\ Len(source) = 4
    /\ source[2] = "\n" /\ source[4] = " "
    /\ Len(tokens) = 4
    /\ Last(tokens).location = Loc(2, 3)

-----------------------------------------------------------------------------
(* TypeChecker.check_program (type_checker.py:163-186) as actions: its     *)
(* start, one action per iteration of each of its two loops over           *)
(* program.declarations, and its return.  check_idx runs through the first *)
(* loop (1..n) and then the second (n+1..2n).                              *)

Declarations == Len(program.declarations)

\* check_program is called up to MaxRuns times on the program.
MaxRuns == 2

\* The history entry of a check_program call that has started: whether it is
\* the first call on its TypeChecker, and what it returned once it has.
CheckRun(fresh) ==
    [fresh |-> fresh, returned |-> FALSE, success |-> FALSE, errors |-> <<>>,
     ast |-> program]

\* checker = TypeChecker(); checker.check_program(program), up to
\* "self.errors = []".
CheckProgramFresh ==
    /\ stage = "check"
    /\ check_status \in {"idle", "returned"}
    /\ Len(check_runs) < MaxRuns
    /\ global_env' = Builtins
    /\ errors' = <<>>
    /\ check_status' = "running"
    /\ check_idx' = 1
    /\ check_runs' = Append(check_runs, CheckRun(TRUE))
    /\ UNCHANGED <<lexVars, parseVars, genVars, stage>>

\* check_program(program) once more on the same TypeChecker, up to
\* "self.errors = []".
CheckProgramAgain ==
    /\ stage = "check"
    /\ check_status = "returned"
    /\ Len(check_runs) < MaxRuns
    /\ errors' = <<>>
    /\ check_status' = "running"
    /\ check_idx' = 1
    /\ check_runs' = Append(check_runs, CheckRun(FALSE))
    /\ UNCHANGED <<global_env, lexVars, parseVars, genVars, stage>>

\* One iteration of the first pass: the function's type is defined in the
\* global environment.
CheckCollect ==
    /\ stage = "check"
    /\ check_status = "running"
    /\ check_idx <= Declarations
    /\ global_env' = Bind(global_env, program.declarations[check_idx].name,
                          declared_type(program.declarations[check_idx]))
    /\ check_idx' = check_idx + 1
    /\ UNCHANGED <<errors, check_status, check_runs,
                   lexVars, parseVars, genVars, stage>>

\* The effect on the checker of a check_function call that ended in k.
FunctionChecked(k) ==
    /\ global_env' = k.env[1]
    /\ errors' = k.errors

\* One iteration of the second pass: the whole check_function call.
CheckFunction ==
    /\ stage = "check"
    /\ check_status = "running"
    /\ check_idx > Declarations
    /\ check_idx <= 2 * Declarations
    /\ FunctionChecked(check_function(global_env, errors,
                                      program.declarations[check_idx - Declarations]))
    /\ check_idx' = check_idx + 1
    /\ UNCHANGED <<check_status, check_runs, lexVars, parseVars, genVars, stage>>

\* "return len(self.errors) == 0"
CheckReturn ==
    /\ stage = "check"
    /\ check_status = "running"
    /\ check_idx > 2 * Declarations
    /\ check_status' = "returned"
    /\ check_runs' = [check_runs EXCEPT ![Len(check_runs)] =
                          [@ EXCEPT !.returned = TRUE,
                                    !.success = (Len(errors) = 0),
                                    !.errors = errors,
                                    !.ast = program]]
    /\ UNCHANGED <<global_env, errors, check_idx, lexVars, parseVars, genVars, stage>>

CheckProgram ==
    \/ CheckProgramFresh \/ CheckProgramAgain
    \/ CheckCollect \/ CheckFunction \/ CheckReturn

\* Programs given to the checker: function bodies of up to MaxStmts
\* statements, the i-th on line 10 * i, over a parameter x, a variable y that
\* is assigned in some statements and read in others (also as the object of
\* a member access that is indexed), an undefined z and a function f.
MaxStmts == 2

Id(l, c, name) == Identifier(Loc(l, c), name)

CheckLeafs(l) ==
    { Assignment(Loc(l, 1), Id(l, 1, "y"), Id(l, 5, "x"), "="),
      Return(Loc(l, 1), Id(l, 8, "y")),
      Call(Loc(l, 2), Id(l, 1, "f"), <<Id(l, 3, "y")>>),
      Assignment(Loc(l, 1), Id(l, 1, "x"),
                 BinaryOp(Loc(l, 7), Id(l, 5, "z"), "+",
                          Literal(Loc(l, 9), IntVal(1))), "="),
      UnaryOp(Loc(l, 1), "not",
              Index(Loc(l, 5), Member(Loc(l, 5), Id(l, 5, "y"), "m"),
                    ListLiteral(Loc(l, 9), <<Id(l, 10, "z")>>))) }

CheckCond(l) ==
    BinaryOp(Loc(l, 6), Id(l, 4, "y"), "<", Literal(Loc(l, 8), IntVal(3)))

CheckStmts(l) ==
    CheckLeafs(l)
    \cup { If(Loc(l, 1), CheckCond(l), Block(Loc(l + 1, 1), <<t>>), NoneNode) :
               t \in CheckLeafs(l + 1) }
    \cup { If(Loc(l, 1), CheckCond(l), Block(Loc(l + 1, 1), <<t>>),
              Block(Loc(l + 2, 1), <<e>>)) :
               t \in CheckLeafs(l + 1), e \in CheckLeafs(l + 2) }
    \cup { While(Loc(l, 1), CheckCond(l), Block(Loc(l + 1, 1), <<t>>)) :
               t \in CheckLeafs(l + 1) }
    \cup { Ensure(Loc(l, 1), CheckCond(l), Block(Loc(l + 1, 1), <<t>>), NoneNode) :
               t \in CheckLeafs(l + 1) }
    \cup { Ensure(Loc(l, 1), CheckCond(l), Block(Loc(l + 1, 1), <<t>>),
                  Block(Loc(l + 2, 1), <<e>>)) :
               t \in CheckLeafs(l + 1), e \in CheckLeafs(l + 2) }

RECURSIVE CheckBodies(_)
CheckBodies(n) ==
    IF n = 0 THEN {<<>>}
    ELSE CheckBodies(n - 1)
         \cup { Append(b, st) : b \in { c \in CheckBodies(n - 1) : Len(c) = n - 1 },
                                st \in CheckStmts(10 * n) }

ResultInteger == Parameter(L1, "result", TypeAnnotation(L1, "Integer", <<>>))

CheckPrograms ==
    { Program(<<Func("main", <<ParamX>>, b)>>) : b \in CheckBodies(MaxStmts) }
    \cup { Program(<< Function(L1, "f", <<>>, <<ResultInteger>>, <<>>,
                               Block(L1, <<s1>>)),
                      Func(n2, <<ParamX>>, <<s2>>) >>) :
               s1 \in CheckLeafs(10), s2 \in CheckLeafs(20), n2 \in {"f", "main"} }

InitCheck ==
    /\ LexIdle
    /\ current = 0 /\ pc = "idle" /\ function = NoneNode /\ params = <<>>
    /\ parse_status = "idle" /\ parse_error = NoError /\ iters = 0
    /\ parse_runs = <<>>
    /\ program \in CheckPrograms
    /\ CheckIdle
    /\ GenIdle
    /\ stage = "check"

SpecCheck == InitCheck /\ [][CheckProgram]_vars

-----------------------------------------------------------------------------
(* Properties of the type checker (checked under SpecCheck).               *)

\* C7: every check_program call on the same program, on the same checker or
\* on a fresh one, returns the same success flag and the same diagnostics
\* (messages, locations, order), and the AST is as it was.
C7_CheckIdempotent ==
    \A i, j \in { r \in 1..Len(check_runs) : check_runs[r].returned } :
        /\ check_runs[i].success = check_runs[j].success
        /\ check_runs[i].errors = check_runs[j].errors
        /\ check_runs[i].ast = check_runs[j].ast
        /\ check_runs[i].ast = program
        /\ check_runs[i].success = (check_runs[i].errors = <<>>)

\* C7 witness: the same checker has returned from check_program twice, with
\* two diagnostics at different locations, for a body that reads y before it
\* assigns it.
C7_Witness ==
    /\ Len(check_runs) = 2
    /\ check_runs[2].returned /\ ~check_runs[2].fresh
    /\ Len(errors) = 2
    /\ errors[1].location # errors[2].location
    /\ Len(program.declarations) = 1
    /\ Len(program.declarations[1].body.statements) = 2
    /\ program.declarations[1].body.statements[2].kind = "Assignment"
    /\ program.declarations[1].body.statements[2].target.name = "y"

-----------------------------------------------------------------------------
(* Parser.parse as a state machine (parser.py:291-471).  pc names the loop *)
(* parse is in: "parse" before its first loop test, "declarations" at the  *)
(* test of its top-level loop, "inputs" / "outputs" in parameter_list,     *)
(* "requirements" in requirement_list, "brace_block" / "indent_block" in   *)
(* the loop of the function body's block().  One action is one test of the *)
(* loop condition with the iteration or the exit that follows it.          *)
(* Statements, expressions and nested blocks are parsed within one step.   *)

\* The parser where it stands.
Parsing == ParseState(current, NoneNode)

ParseAt(at) ==
    /\ stage = "parse"
    /\ parse_status = "running"
    /\ pc \in at

\* A loop iteration is followed while it leaves the cursor where it was up
\* to MaxSpins times.
MaxSpins == 3

\* ParseError leaves parse().
ParseRaise(r) ==
    /\ parse_status' = "raised"
    /\ parse_error' = r.error
    /\ current' = r.current
    /\ UNCHANGED <<pc, function, params, program, iters>>

\* The iteration ended at r and the loop goes on; iters counts the
\* iterations since the cursor last moved.
Iterated(r) ==
    /\ iters < MaxSpins
    /\ current' = r.current
    /\ iters' = IF r.current > current THEN 0 ELSE iters + 1
    /\ UNCHANGED <<pc, program, parse_status, parse_error>>

\* function_declaration reached the loop s.node names, func being the
\* function as filled in so far.
SectionEntered(s, func) ==
    IF ParseRaised(s) THEN ParseRaise(s)
    ELSE /\ current' = s.current
         /\ pc' = s.node.section
         /\ function' = [func EXCEPT !.body = s.node.body]
         /\ params' = <<>>
         /\ iters' = 0
         /\ UNCHANGED <<program, parse_status, parse_error>>

\* program = Program(...); self.skip_newlines() (parser.py:293-295)
ParseProgram ==
    /\ ParseAt({"parse"})
    /\ program' = Program(<<>>)
    /\ current' = skip_newlines(Parsing).current
    /\ pc' = "declarations"
    /\ UNCHANGED <<function, params, parse_status, parse_error, iters>>
    /\ UNCHANGED <<lexVars, checkVars, genVars, stage, parse_runs>>

\* declaration() got as far as d, the function's header.
FunctionDeclared(d) == SectionEntered(function_sections(d, 1), d.node)

\* An iteration of `while not self.is_at_end()` of parse up to the first
\* loop of function_declaration (parser.py:297-298, 305-349).
Declaration ==
    /\ ParseAt({"declarations"})
    /\ ~parser_is_at_end(Parsing)
    /\ FunctionDeclared(declaration(Parsing))
    /\ UNCHANGED <<lexVars, checkVars, genVars, stage, parse_runs>>

\* The section after the one function_declaration is in.
SectionAfter ==
    CASE pc = "inputs" -> 2
      [] pc = "outputs" -> 3
      [] pc = "requirements" -> 4

\* `return params` / `return requirements` at r with the list built, the
\* assignment to the function's field and skip_newlines, up to the next
\* loop (parser.py:327-342).
ListReturned(r, list) ==
    SectionEntered(function_sections(skip_newlines(r), SectionAfter),
                   [function EXCEPT ![pc] = list])

\* `params.append(param); if not self.match(NEWLINE): break`
\* (parser.py:368-371), r being the iteration so far
ParameterParsed(r) ==
    IF ParseRaised(r) THEN ParseRaise(r)
    ELSE IF r.node.kind = "LoopBreak" THEN ListReturned(r, params)
    ELSE IF check(r, "NEWLINE")
         THEN /\ Iterated(parser_advance(r))
              /\ params' = Append(params, r.node)
              /\ UNCHANGED function
         ELSE ListReturned(r, Append(params, r.node))

\* One test of the loop condition of parameter_list with the iteration or
\* the return that follows (parser.py:353-373).
ParameterList ==
    /\ ParseAt({"inputs", "outputs"})
    /\ IF /\ ~check_any(Parsing, {"OUTPUTS", "REQUIREMENTS", "IMPLEMENTATION"})
          /\ ~parser_is_at_end(Parsing)
       THEN ParameterParsed(parameter_iteration(Parsing))
       ELSE ListReturned(Parsing, params)
    /\ UNCHANGED <<lexVars, checkVars, genVars, stage, parse_runs>>

\* The end of an iteration of the loop of requirement_list at r.
RequirementParsed(r) ==
    IF r.node.kind = "LoopBreak" THEN ListReturned(r, params)
    ELSE /\ Iterated(r)
         /\ params' = IF r.node.kind = "None" THEN params
                      ELSE Append(params, r.node)
         /\ UNCHANGED function

\* One test of the loop condition of requirement_list with the iteration
\* or the return that follows (parser.py:407-428).
RequirementList ==
    /\ ParseAt({"requirements"})
    /\ IF ~check(Parsing, "IMPLEMENTATION") /\ ~parser_is_at_end(Parsing)
       THEN RequirementParsed(requirement_iteration(Parsing))
       ELSE ListReturned(Parsing, params)
    /\ UNCHANGED <<lexVars, checkVars, genVars, stage, parse_runs>>

\* block() returned at e: function_declaration returns the function, parse
\* appends it and skips newlines (parser.py:349-351, 298-301).
FunctionReturned(e) ==
    IF ParseRaised(e) THEN ParseRaise(e)
    ELSE /\ program' = [program EXCEPT !.declarations =
                            Append(@, [function EXCEPT !.body = e.node])]
         /\ current' = skip_newlines(e).current
         /\ pc' = "declarations"
         /\ function' = NoneNode
         /\ params' = <<>>
         /\ iters' = 0
         /\ UNCHANGED <<parse_status, parse_error>>

\* The loop of the body's block() ends at r.
BlockReturned(r) ==
    FunctionReturned(block_end(r, function.body.statements,
                               function.body.location, pc = "brace_block"))

\* The end of an iteration of the loop of the body's block() at r.
StatementParsed(r) ==
    IF ParseRaised(r) THEN ParseRaise(r)
    ELSE IF r.node.kind = "LoopBreak" THEN BlockReturned(r)
    ELSE /\ Iterated(r)
         /\ function' = [function EXCEPT !.body.statements = Append(@, r.node)]
         /\ UNCHANGED params

\* One test of the loop condition of the function body's block() with the
\* iteration or the return that follows (parser.py:438-450, 452-471).
BlockLoop ==
    /\ ParseAt({"brace_block", "indent_block"})
    /\ IF ~parser_is_at_end(Parsing)
       THEN StatementParsed(block_iteration(Parsing, pc = "brace_block"))
       ELSE BlockReturned(Parsing)
    /\ UNCHANGED <<lexVars, checkVars, genVars, stage, parse_runs>>

\* `return program` (parser.py:303)
ParseReturn ==
    /\ ParseAt({"declarations"})
    /\ parser_is_at_end(Parsing)
    /\ parse_status' = "returned"
    /\ UNCHANGED <<current, pc, function, params, program, parse_error, iters>>
    /\ UNCHANGED <<lexVars, checkVars, genVars, stage, parse_runs>>

Parse ==
    \/ ParseProgram \/ Declaration \/ ParameterList \/ RequirementList
    \/ BlockLoop \/ ParseReturn

\* Token sequences given to the parser.  A token is written by its type;
\* spelled with the lexeme below it is what the lexer makes of that text.
Spelling(type) ==
    CASE type = "IDENTIFIER" -> "x"
      [] type = "INTEGER" -> "1"
      [] type = "NEWLINE" -> "\\n"
      [] type = "EOF" -> ""
      [] type = "COLON" -> ":"
      [] type = "COMMA" -> ","
      [] type = "DOT" -> "."
      [] type = "ASSIGN" -> "="
      [] type = "PLUS" -> "+"
      [] type = "MINUS" -> "-"
      [] type = "STAR" -> "*"
      [] type = "SLASH" -> "/"
      [] type = "PERCENT" -> "%"
      [] type = "NE" -> "!="
      [] type = "LT" -> "<"
      [] type = "GT" -> ">"
      [] type = "LE" -> "<="
      [] type = "GE" -> ">="
      [] type = "LPAREN" -> "("
      [] type = "RPAREN" -> ")"
      [] type = "LBRACE" -> "{"
      [] type = "RBRACE" -> "}"
      [] type = "LBRACKET" -> "["
      [] type = "RBRACKET" -> "]"
      [] type = "FUNCTION" -> "function"
      [] type = "INPUTS" -> "inputs"
      [] type = "OUTPUTS" -> "outputs"
      [] type = "REQUIREMENTS" -> "requirements"
      [] type = "IMPLEMENTATION" -> "implementation"
      [] type = "RETURN" -> "return"
      [] type = "IF" -> "if"
      [] type = "ELSE" -> "else"
      [] type = "WHILE" -> "while"
      [] type = "ENSURE" -> "ensure"
      [] type = "OTHERWISE" -> "otherwise"
      [] type = "BREAK" -> "break"
      [] type = "CONTINUE" -> "continue"
      [] type = "NOT" -> "not"
      [] type = "WHERE" -> "where"
      [] type = "OR" -> "or"
      [] type = "AND" -> "and"
      [] type = "EQ" -> "=="
      [] type = "TILDE" -> "~"

\* The i-th of the tokens of these types: on line 1 + the number of
\* NEWLINE tokens before it, at the column that counts the tokens of its
\* line.
TokenLine(types, i) ==
    1 + Cardinality({ j \in 1..(i - 1) : types[j] = "NEWLINE" })

TokenColumn(types, i) ==
    Cardinality({ j \in 1..i : \A n \in j..(i - 1) : types[n] # "NEWLINE" })

Located(types) ==
    [ i \in 1..Len(types) |->
        Token(types[i], Spelling(types[i]),
              Loc(TokenLine(types, i), TokenColumn(types, i)),
              IF types[i] = "INTEGER" THEN IntVal(1) ELSE NoneVal) ]

\* At most MaxTokens tokens follow the opening of a context.
MaxTokens == 4

FunctionOpening == <<"FUNCTION", "IDENTIFIER", "COLON", "NEWLINE">>

BodyOpening == FunctionOpening \o <<"IMPLEMENTATION", "COLON", "NEWLINE">>

\* The places of a program where the tokens vary, each with the token types
\* that vary there.
ParseContexts ==
    { [opening |-> <<>>,
       types |-> {"FUNCTION", "IDENTIFIER", "COLON", "NEWLINE", "IMPLEMENTATION",
                  "RETURN"}],
      [opening |-> FunctionOpening,
       types |-> {"INPUTS", "OUTPUTS", "REQUIREMENTS", "IMPLEMENTATION", "COLON",
                  "NEWLINE", "IDENTIFIER"}],
      [opening |-> FunctionOpening \o <<"INPUTS", "COLON", "NEWLINE">>,
       types |-> {"IDENTIFIER", "COLON", "NEWLINE", "LT", "GT", "COMMA",
                  "OUTPUTS", "IMPLEMENTATION"}],
      [opening |-> FunctionOpening \o <<"REQUIREMENTS", "COLON", "NEWLINE">>,
       types |-> {"MINUS", "IDENTIFIER", "NEWLINE", "IMPLEMENTATION", "COLON",
                  "GT"}],
      [opening |-> BodyOpening,
       types |-> {"IDENTIFIER", "INTEGER", "PLUS", "STAR", "MINUS", "LPAREN",
                  "RPAREN", "ASSIGN"}],
      [opening |-> BodyOpening,
       types |-> {"IDENTIFIER", "LPAREN", "RPAREN", "COMMA", "LBRACKET",
                  "RBRACKET", "DOT", "NOT"}],
      [opening |-> BodyOpening,
       types |-> {"RETURN", "IF", "WHILE", "COLON", "NEWLINE", "IDENTIFIER",
                  "FUNCTION", "BREAK"}],
      [opening |-> BodyOpening \o <<"IF", "IDENTIFIER", "COLON", "IDENTIFIER",
                                    "NEWLINE">>,
       types |-> {"ELSE", "COLON", "NEWLINE", "IDENTIFIER", "RETURN", "FUNCTION"}],
      [opening |-> BodyOpening \o <<"ENSURE", "IDENTIFIER", "COLON", "IDENTIFIER",
                                    "NEWLINE">>,
       types |-> {"OTHERWISE", "COLON", "NEWLINE", "IDENTIFIER", "CONTINUE",
                  "ENSURE"}],
      [opening |-> FunctionOpening \o <<"IMPLEMENTATION", "COLON">>,
       types |-> {"LBRACE", "RBRACE", "NEWLINE", "IDENTIFIER", "IF", "COLON",
                  "RETURN"}],
      [opening |-> FunctionOpening \o <<"INPUTS", "COLON", "NEWLINE",
                                        "IDENTIFIER", "COLON", "IDENTIFIER">>,
       types |-> {"WHERE", "IDENTIFIER", "GT", "INTEGER", "NEWLINE", "OUTPUTS",
                  "IMPLEMENTATION", "COLON"}],
      [opening |-> BodyOpening \o <<"IDENTIFIER">>,
       types |-> {"IDENTIFIER", "OR", "AND", "EQ", "LT", "PLUS", "MINUS", "STAR",
                  "NOT"}],
      [opening |-> BodyOpening,
       types |-> {"IDENTIFIER", "MINUS", "NOT", "TILDE", "STAR", "LT"}],
      [opening |-> BodyOpening \o <<"LBRACE", "IF", "IDENTIFIER", "COLON", "LBRACE">>,
       types |-> {"RBRACE", "IDENTIFIER", "NEWLINE", "ELSE", "COLON", "FUNCTION"}] }

\* Expressions for the body of a function, by token types.  The token
\* types of the binary operators, of the prefix operators that may precede
\* an operand, and operands: a name, a literal, member access, calls,
\* indexing, parenthesised expressions and a list.
BinaryTypes ==
    {"OR", "AND", "EQ", "NE", "LT", "GT", "LE", "GE", "PLUS", "MINUS", "STAR",
     "SLASH", "PERCENT"}

PrefixTypes == {<<>>, <<"MINUS">>, <<"NOT">>, <<"TILDE">>}

OperandTypes ==
    { <<"IDENTIFIER">>,
      <<"INTEGER">>,
      <<"IDENTIFIER", "DOT", "IDENTIFIER">>,
      <<"IDENTIFIER", "LPAREN", "RPAREN">>,
      <<"IDENTIFIER", "LPAREN", "IDENTIFIER", "COMMA", "IDENTIFIER", "RPAREN">>,
      <<"IDENTIFIER", "LBRACKET", "IDENTIFIER", "RBRACKET">>,
      <<"IDENTIFIER", "LBRACKET", "IDENTIFIER", "LT", "IDENTIFIER", "RBRACKET">>,
      <<"IDENTIFIER", "DOT", "IDENTIFIER", "LPAREN", "IDENTIFIER", "STAR",
        "IDENTIFIER", "RPAREN">>,
      <<"LPAREN", "IDENTIFIER", "PLUS", "IDENTIFIER", "RPAREN">>,
      <<"LPAREN", "IDENTIFIER", "OR", "IDENTIFIER", "RPAREN">>,
      <<"LPAREN", "MINUS", "IDENTIFIER", "RPAREN">>,
      <<"LBRACKET", "IDENTIFIER", "COMMA", "IDENTIFIER", "RBRACKET">> }

\* x op x op x op x for all binary operators, and two operands of any
\* form, the first after any prefix operator and the second plain or
\* negated, around any binary operator.
ExpressionBodies ==
    { <<"IDENTIFIER", op1, "IDENTIFIER", op2, "IDENTIFIER", op3, "IDENTIFIER">> :
        op1 \in BinaryTypes, op2 \in BinaryTypes, op3 \in BinaryTypes }
    \cup
    { body.pre \o body.left \o <<body.op>> \o body.neg \o body.right :
        body \in [pre : PrefixTypes, left : OperandTypes, op : BinaryTypes,
                  neg : {<<>>, <<"MINUS">>}, right : OperandTypes] }

\* Parser(tokens).parse() on the tokens of an opening, at most MaxTokens
\* more tokens of its context, and EOF; or on a function whose body is one
\* of the expressions above.
InitParse ==
    /\ source = <<>> /\ pos = 0 /\ line = 1 /\ column = 1 /\ starts = <<>>
    /\ lex_status = "returned" /\ lex_error = NoError
    /\ \/ \E ctx \in ParseContexts :
              \E rest \in SeqsUpTo(ctx.types, MaxTokens) :
                  tokens = Located(ctx.opening \o rest \o <<"EOF">>)
       \/ \E body \in ExpressionBodies :
              tokens = Located(BodyOpening \o body \o <<"EOF">>)
    /\ current = 0 /\ pc = "parse" /\ function = NoneNode /\ params = <<>>
    /\ program = Program(<<>>)
    /\ parse_status = "running" /\ parse_error = NoError /\ iters = 0
    /\ parse_runs = <<>>
    /\ CheckIdle /\ GenIdle
    /\ stage = "parse"

SpecParse == InitParse /\ [][Parse]_vars

-----------------------------------------------------------------------------
(* Properties of the parser (checked under SpecParse).                     *)

\* C1: Parser.parse terminates because every iteration of every parser
\* loop advances the token cursor or leaves the loop (or raises): a step
\* of parse after which it is still running, in the same loop, has moved
\* the cursor forward.
C1_EveryIterationAdvances ==
    [][ ( /\ parse_status = "running"
          /\ parse_status' = "running"
          /\ pc' = pc )
        => current' > current ]_vars

\* requirement_list is in its loop at a token that is none of `-`, NEWLINE,
\* `implementation` and EOF, and has gone round MaxSpins times without
\* moving.
C1_Spinning ==
    /\ parse_status = "running"
    /\ pc = "requirements"
    /\ iters = MaxSpins
    /\ ~check_any(Parsing, {"MINUS", "NEWLINE", "IMPLEMENTATION"})
    /\ ~parser_is_at_end(Parsing)

-----------------------------------------------------------------------------
(* Compiler.compile_string (compiler.py:94-115): the stages in turn on one *)
(* source text.  A source is a sequence of characters.                     *)

\* parser = Parser(tokens); parser.parse(), up to `self.current = 0`
CompileParse ==
    /\ stage = "lex"
    /\ lex_status = "returned"
    /\ stage' = "parse"
    /\ current' = 0
    /\ pc' = "parse"
    /\ parse_status' = "running"
    /\ UNCHANGED <<function, params, program, parse_error, iters, parse_runs>>
    /\ UNCHANGED <<lexVars, checkVars, genVars>>

\* type_check_program(ast) (type_checker.py:423-426), up to
\* `self.errors = []` of check_program on the new TypeChecker
CompileCheck ==
    /\ stage = "parse"
    /\ parse_status = "returned"
    /\ stage' = "check"
    /\ global_env' = Builtins
    /\ errors' = <<>>
    /\ check_status' = "running"
    /\ check_idx' = 1
    /\ check_runs' = Append(check_runs, CheckRun(TRUE))
    /\ UNCHANGED <<lexVars, parseVars, genVars>>

\* Variant of CompileGenerate that ignores the checker's result.
CompileGenerate_despite_diagnostics ==
    /\ stage = "check"
    /\ check_status = "returned"
    /\ stage' = "generate"
    /\ gen_status' = "running"
    /\ UNCHANGED <<module, label_counter, loop_stack, gen_idx, gen_error, gen_log>>
    /\ UNCHANGED <<lexVars, parseVars, checkVars>>

\* generate_bytecode(ast) (codegen.py:408-411), up to the loop of generate
CompileGenerate ==
    /\ stage = "check"
    /\ check_status = "returned"
    /\ Len(errors) = 0
    /\ stage' = "generate"
    /\ gen_status' = "running"
    /\ UNCHANGED <<module, label_counter, loop_stack, gen_idx, gen_error, gen_log>>
    /\ UNCHANGED <<lexVars, parseVars, checkVars>>

\* A stage raised, or the checker returned false: CompilationError
CompileRaise ==
    /\ \/ stage = "lex" /\ lex_status = "raised"
       \/ stage = "parse" /\ parse_status = "raised"
       \/ stage = "check" /\ check_status = "returned" /\ Len(errors) > 0
       \/ stage = "generate" /\ gen_status = "raised"
    /\ stage' = "failed"
    /\ UNCHANGED <<lexVars, parseVars, checkVars, genVars>>

\* `return bytecode`
CompileReturn ==
    /\ stage = "generate"
    /\ gen_status = "returned"
    /\ stage' = "returned"
    /\ UNCHANGED <<lexVars, parseVars, checkVars, genVars>>

CompileString ==
    \/ CompileParse \/ CompileCheck \/ CompileGenerate
    \/ CompileRaise \/ CompileReturn

\* The `add` program up to its body, with or without a requirements
\* section, and the line of its body.
AddOpening ==
    <<"f", "u", "n", "c", "t", "i", "o", "n", " ", "a", "d", "d", ":", "\n",
      " ", " ", "i", "n", "p", "u", "t", "s", ":", "\n", " ", " ", " ", " ",
      "a", ":", " ", "I", "n", "t", "e", "g", "e", "r", "\n", " ", " ", " ",
      " ", "b", ":", " ", "I", "n", "t", "e", "g", "e", "r", "\n", " ", " ",
      "o", "u", "t", "p", "u", "t", "s", ":", "\n", " ", " ", " ", " ", "r",
      "e", "s", "u", "l", "t", ":", " ", "I", "n", "t", "e", "g", "e", "r",
      "\n">>

AddRequirements ==
    <<" ", " ", "r", "e", "q", "u", "i", "r", "e", "m", "e", "n", "t", "s",
      ":", "\n", " ", " ", " ", " ", "-", " ", "a", " ", ">", " ", "0", "\n">>

AddImplementation ==
    <<" ", " ", "i", "m", "p", "l", "e", "m", "e", "n", "t", "a", "t", "i",
      "o", "n", ":", "\n", " ", " ", " ", " ">>

ReturnKeyword ==
    <<"r", "e", "t", "u", "r", "n", " ">>

Operands == { <<"a">>, <<"b">>, <<"1">> }

Operators ==
    { <<"+">>, <<"-">>, <<"*">>, <<"/">>, <<"%">>, <<"<">>, <<"=", "=">>,
      <<"<", "=">> }

\* `return x op y`
BinaryBodies ==
    { ReturnKeyword \o x \o <<" ">> \o op \o <<" ">> \o y :
        x \in Operands, op \in Operators, y \in Operands }

\* Bodies with a nested operand, without a return, with comments and a
\* string, one that fails in each stage, one with a name that is a
\* non-ASCII letter and one with a number that is a superscript digit.
OtherBodies ==
    {
    <<"r", "e", "t", "u", "r", "n", " ", "a", " ", "+", " ", "b", " ", "*",
      " ", "a">>,
    <<"r", "e", "t", "u", "r", "n", " ", "(", "a", " ", "+", " ", "b", ")",
      " ", "*", " ", "a">>,
    <<"a", " ", "+", " ", "b">>,
    <<"r", "e", "t", "u", "r", "n", " ", "a", " ", "+", " ", "b", " ", "/",
      "/", " ", "s", "u", "m">>,
    <<"/", "*", " ", "s", "u", "m", " ", "*", "/", " ", "r", "e", "t", "u",
      "r", "n", " ", "a", " ", "+", " ", "b">>,
    <<"r", "e", "t", "u", "r", "n", " ", "\"", "s", "\"">>,
    <<"r", "e", "t", "u", "r", "n", " ", "a", " ", "@", " ", "b">>,
    <<"r", "e", "t", "u", "r", "n", " ", "a", " ", "+">>,
    <<"r", "e", "t", "u", "r", "n", " ", "c", " ", "+", " ", "b">>,
    <<"b", "r", "e", "a", "k">>,
    <<"r", "e", "t", "u", "r", "n", " ", "é", " ", "+", " ", "b">>,
    <<"r", "e", "t", "u", "r", "n", " ", "a", " ", "+", " ", "²">>
    }

AddProgram(reqs, body) ==
    AddOpening \o reqs \o AddImplementation \o body \o <<"\n">>

\* The program of the end-to-end scenario.
AddSource ==
    AddProgram(<<>>, ReturnKeyword \o <<"a", " ", "+", " ", "b">>)

CompileSources ==
    { AddProgram(reqs, body) :
        reqs \in {<<>>, AddRequirements}, body \in BinaryBodies \cup OtherBodies }

\* Compiler().compile_string(source) on a source of CompileSources.
Init ==
    /\ source \in CompileSources
    /\ pos = 0 /\ line = 1 /\ column = 1
    /\ tokens = <<>> /\ starts = <<>>
    /\ lex_status = "running" /\ lex_error = NoError
    /\ ParseIdle /\ CheckIdle /\ GenIdle
    /\ stage = "lex"

Next ==
    \/ Tokenize
    \/ Parse
    \/ CheckCollect \/ CheckFunction \/ CheckReturn
    \/ GenerateFunction \/ GenerateReturn
    \/ CompileString

Spec == Init /\ [][Next]_vars

-----------------------------------------------------------------------------
(* Properties of the whole compilation (checked under Spec).               *)

\* The code of an expression made of names, literals and binary operators
\* when every binary expression is its left operand's code, its right
\* operand's code, then its operator's opcode.
RECURSIVE OperandsThenOperator(_)
OperandsThenOperator(e) ==
    CASE e.kind = "Literal" -> << Instruction("LOAD_CONST", e.value) >>
      [] e.kind = "Identifier" -> << Instruction("LOAD_VAR", StrVal(e.name)) >>
      [] e.kind = "BinaryOp" ->
            OperandsThenOperator(e.left) \o OperandsThenOperator(e.right)
                \o << Instruction(op_map(e.operator), NoneVal) >>

AddCode ==
    << Instruction("LOAD_VAR", StrVal("a")), Instruction("LOAD_VAR", StrVal("b")),
       Instruction("ADD", NoneVal), Instruction("RETURN", NoneVal) >>

\* The body of the k-th function is the one statement `return e` or `e`
\* with e a binary expression.
ReturnsBinary(k) ==
    /\ Len(program.declarations[k].body.statements) = 1
    /\ program.declarations[k].body.statements[1].kind = "Return"
    /\ program.declarations[k].body.statements[1].value.kind = "BinaryOp"

IsBinary(k) ==
    /\ Len(program.declarations[k].body.statements) = 1
    /\ program.declarations[k].body.statements[1].kind = "BinaryOp"

EndsInReturn(k) ==
    /\ Len(program.declarations[k].body.statements) > 0
    /\ Last(program.declarations[k].body.statements).kind = "Return"

\* C6: the `add` program passes the lexer, the parser and the checker (no
\* diagnostics) and compiles to the one function add with the code
\* LOAD_VAR a, LOAD_VAR b, ADD, RETURN; in every program compiled, a binary
\* expression's code is its left operand's code, its right operand's code,
\* then the operator's opcode, and a body ending in a return statement gets
\* nothing appended to its code.
C6_AddEndToEnd ==
    /\ source = AddSource =>
          /\ lex_status # "raised"
          /\ parse_status # "raised"
          /\ gen_status # "raised"
          /\ stage # "failed"
          /\ check_status = "returned" =>
                errors = <<>> /\ Last(check_runs).success
          /\ stage = "returned" =>
                /\ DOMAIN module = {"add"}
                /\ module["add"].instructions = AddCode
    /\ gen_status = "returned" =>
          \A k \in 1..Len(gen_log) :
              /\ ReturnsBinary(k) =>
                    gen_log[k].code =
                        OperandsThenOperator(
                            program.declarations[k].body.statements[1].value)
                        \o << Instruction("RETURN", NoneVal) >>
              /\ IsBinary(k) =>
                    gen_log[k].body =
                        OperandsThenOperator(
                            program.declarations[k].body.statements[1])
                        \o << Instruction("POP", NoneVal) >>
              /\ EndsInReturn(k) => gen_log[k].code = gen_log[k].body

\* compile_string returned the module of the `add` program.
C6_Witness ==
    /\ stage = "returned"
    /\ source = AddSource
    /\ Len(tokens) > 0 /\ Last(tokens).type = "EOF"
    /\ Len(program.declarations) = 1
    /\ program.declarations[1].name = "add"
    /\ Len(program.declarations[1].inputs) = 2
    /\ errors = <<>>
    /\ Len(module["add"].instructions) = 4

-----------------------------------------------------------------------------
(* Errors of the stages (checked under Spec).  LexerError, ParseError and  *)
(* TypeCheckError objects have the attributes message and location; the    *)
(* generator raises a plain Exception(message), whose only content is the  *)
(* message.                                                                *)

\* The exception CodeGenerator raised (codegen.py:269, 277, 338, 349, 370):
\* Exception(msg) has the message and no location attribute.
generation_exception == [message |-> gen_error]

\* e has a message, and a location that renders as name:line:column.
HasMessage(e) == "message" \in DOMAIN e /\ e.message # ""

HasLocation(e) ==
    /\ "location" \in DOMAIN e
    /\ e.location.line >= 1
    /\ e.location.column >= 1

\* C11: every error a stage raised or recorded (LexerError, ParseError,
\* TypeCheckError diagnostics, generation errors) carries both a message
\* and a source location.
C11_ErrorsCarryLocation ==
    /\ lex_status = "raised" => HasMessage(lex_error) /\ HasLocation(lex_error)
    /\ parse_status = "raised" =>
          HasMessage(parse_error) /\ HasLocation(parse_error)
    /\ \A i \in 1..Len(errors) : HasMessage(errors[i]) /\ HasLocation(errors[i])
    /\ gen_status = "raised" =>
          HasMessage(generation_exception) /\ HasLocation(generation_exception)

\* generate raised on a break outside any loop and compile_string failed.
C11_GenerationRaised ==
    /\ stage = "failed"
    /\ gen_status = "raised"
    /\ gen_error = "break outside of loop"

-----------------------------------------------------------------------------
(* Stage order of compile_string (checked under Spec).                     *)

\* A stage raised, or check_program returned with a diagnostic.
StageFailed ==
    \/ lex_status = "raised"
    \/ parse_status = "raised"
    \/ check_status = "returned" /\ Len(errors) > 0
    \/ gen_status = "raised"

\* The steps compile_string takes from one stage to the next.
StageSteps ==
    { <<"lex", "parse">>, <<"parse", "check">>, <<"check", "generate">>,
      <<"generate", "returned">>,
      <<"lex", "failed">>, <<"parse", "failed">>, <<"check", "failed">>,
      <<"generate", "failed">> }

\* A stage has been invoked only if every earlier stage completed without
\* error.
InvokedInOrder ==
    /\ parse_status # "idle" => lex_status = "returned"
    /\ check_status # "idle" => parse_status = "returned"
    /\ gen_status # "idle" => check_status = "returned" /\ Len(errors) = 0
    /\ StageFailed => stage # "returned"

\* C12: compile_string runs lex, parse, type-check, generate in this order;
\* a stage is invoked only if every earlier stage completed without error
\* (a lex error prevents parsing, a parse error prevents checking, a
\* diagnostic prevents generate_bytecode), and in each failure case the
\* call raises CompilationError and returns no module.
C12_FailFast ==
    /\ []InvokedInOrder
    /\ [][ /\ stage' # stage => <<stage, stage'>> \in StageSteps
           /\ StageFailed => stage' = "failed" ]_vars

\* compile_string raised CompilationError because the checker recorded a
\* diagnostic: the generator was never invoked.
C12_Witness ==
    /\ stage = "failed"
    /\ lex_status = "returned" /\ parse_status = "returned"
    /\ check_status = "returned" /\ Len(errors) > 0
    /\ gen_status = "idle" /\ module = <<>>

-----------------------------------------------------------------------------
(* String literal tokens (checked under SpecLex).  Indices into source are *)
(* 1-based here.                                                           *)

\* The index of the double quote that closes a string whose text begins at
\* index j: the first one that is not escaped by a backslash.
RECURSIVE ClosingQuote(_)
ClosingQuote(j) ==
    IF source[j] = "\"" THEN j
    ELSE IF source[j] = "\\" THEN ClosingQuote(j + 2)
    ELSE ClosingQuote(j + 1)

\* The characters source[a..b] as a string.
RECURSIVE SourceText(_, _)
SourceText(a, b) == IF a > b THEN "" ELSE source[a] \o SourceText(a + 1, b)

\* The text source[a..b] with every escape sequence replaced by the
\* character it denotes.
RECURSIVE Decoded(_, _)
Decoded(a, b) ==
    IF a > b THEN ""
    ELSE IF source[a] = "\\"
         THEN unescape(source[a + 1]) \o Decoded(a + 2, b)
         ELSE source[a] \o Decoded(a + 1, b)

\* C14: the literal value of every string token is the decoded text between
\* its quotes, and its lexeme is the source text from the opening quote to
\* the closing quote, escape sequences still in their backslash form.
C14_StringLexemeIsSourceText ==
    \A i \in 1..Len(tokens) :
        tokens[i].type = "STRING" =>
            /\ tokens[i].literal =
                   StrVal(Decoded(starts[i] + 2, ClosingQuote(starts[i] + 2) - 1))
            /\ tokens[i].lexeme =
                   SourceText(starts[i] + 1, ClosingQuote(starts[i] + 2))

\* C14, reached: the source is the four characters quote, backslash,
\* backslash, quote; the token's literal value is one backslash and its
\* lexeme is that backslash between quotes, three characters.
C14_Reached ==
    /\ lex_status = "returned"
    /\ source = <<"\"", "\\", "\\", "\"">>
    /\ Len(tokens) = 2
    /\ tokens[1].type = "STRING"
    /\ tokens[1].literal = StrVal("\\")
    /\ tokens[1].lexeme = "\"\\\""

-----------------------------------------------------------------------------
(* The where clause of a parameter (checked under SpecParse).              *)

\* The iteration of parameter_list that starts at the cursor parses a
\* parameter with a type annotation, and the next token is `where`.
ParameterBeforeWhere ==
    /\ ParseAt({"inputs", "outputs"})
    /\ ~check_any(Parsing, {"OUTPUTS", "REQUIREMENTS", "IMPLEMENTATION"})
    /\ ~parser_is_at_end(Parsing)
    /\ ~ParseRaised(parameter_iteration(Parsing))
    /\ parameter_iteration(Parsing).node.kind = "Parameter"
    /\ parameter_iteration(Parsing).node.type_annotation.kind = "TypeAnnotation"
    /\ check(parameter_iteration(Parsing), "WHERE")

\* C15: a parameter's type annotation followed by a where clause is
\* accepted: the parser goes on (no ParseError), the cursor has passed
\* the `where` token, and the parameter is added to the list with its type
\* annotation and no constraint.
C15_WhereClauseAccepted ==
    [][ ParameterBeforeWhere =>
            /\ parse_status' = "running"
            /\ current' > parameter_iteration(Parsing).current
            /\ \/ params' = Append(params, parameter_iteration(Parsing).node)
               \/ function'[pc] = Append(params, parameter_iteration(Parsing).node)
      ]_vars

\* C15, reached: the parser raised "Expected 'implementation'" at the
\* `where` token that follows the type annotation of the first input.
C15_Reached ==
    /\ parse_status = "raised"
    /\ pc = "inputs"
    /\ params = <<>>
    /\ current = 10
    /\ Len(tokens) > 10
    /\ tokens[current + 1].type = "WHERE"
    /\ tokens[current].type = "IDENTIFIER"
    /\ tokens[current - 1].type = "COLON"
    /\ parse_error.location = tokens[current + 1].location

-----------------------------------------------------------------------------
(* Operator precedence (checked under SpecParse).                          *)

\* The binary operators by binding strength, loosest first.
PrecedenceTable ==
    << {"or"}, {"and"}, {"==", "!="}, {"<", ">", "<=", ">="}, {"+", "-"},
       {"*", "/", "%"} >>

Precedence(operator) ==
    CHOOSE k \in 1..Len(PrecedenceTable) : operator \in PrecedenceTable[k]

PrefixOperators == {"-", "not", "~"}

\* The token types of names and of prefix and binary operators.
PlainTypes ==
    {"IDENTIFIER", "OR", "AND", "EQ", "NE", "LT", "GT", "LE", "GE", "PLUS",
     "MINUS", "STAR", "SLASH", "PERCENT", "NOT", "TILDE"}

\* The tokens are a function whose body is names and operators only, on
\* one line, without parentheses.
PlainBody ==
    /\ Len(tokens) > Len(BodyOpening) + 1
    /\ \A i \in 1..Len(BodyOpening) : tokens[i].type = BodyOpening[i]
    /\ \A i \in (Len(BodyOpening) + 1)..(Len(tokens) - 1) :
           tokens[i].type \in PlainTypes

\* In the tree e, a left operand binds at least as tightly as its parent
\* and a right operand strictly tighter (so a level groups to the left and
\* a tighter operator is a child of a looser one), and the operand of a
\* prefix operator is never a binary expression, only a further prefix
\* expression or a name.
RECURSIVE GroupedByPrecedence(_)
GroupedByPrecedence(e) ==
    CASE e.kind = "BinaryOp" ->
            /\ e.left.kind = "BinaryOp" =>
                  Precedence(e.left.operator) >= Precedence(e.operator)
            /\ e.right.kind = "BinaryOp" =>
                  Precedence(e.right.operator) > Precedence(e.operator)
            /\ GroupedByPrecedence(e.left)
            /\ GroupedByPrecedence(e.right)
      [] e.kind = "UnaryOp" ->
            /\ e.operator \in PrefixOperators
            /\ e.operand.kind # "BinaryOp"
            /\ GroupedByPrecedence(e.operand)
      [] OTHER -> e.kind = "Identifier"

\* The spellings of the tree e read from left to right.
RECURSIVE Yield(_)
Yield(e) ==
    CASE e.kind = "BinaryOp" -> Yield(e.left) \o <<e.operator>> \o Yield(e.right)
      [] e.kind = "UnaryOp" -> <<e.operator>> \o Yield(e.operand)
      [] e.kind = "Identifier" -> <<e.name>>
      [] OTHER -> <<>>

RECURSIVE YieldAll(_, _)
YieldAll(sts, i) ==
    IF i > Len(sts) THEN <<>> ELSE Yield(sts[i]) \o YieldAll(sts, i + 1)

\* The tree an expression must parse to, read off its tokens without
\* descending through the grammar's methods: tokens[a..b] is split at its
\* loosest binary operator outside brackets, the rightmost one of that
\* level; without one, a leading prefix operator applies to the rest; without
\* that, a trailing `.name`, `(...)` or `[...]` applies to what precedes it;
\* what remains is a name, a literal, a parenthesised expression or a list.
\* Trees are written without locations; Malformed marks what is no
\* expression.
Malformed == [kind |-> "Malformed"]

OperandEnd == {"IDENTIFIER", "INTEGER", "RPAREN", "RBRACKET"}

OpenBrackets == {"LPAREN", "LBRACKET"}

CloseBrackets == {"RPAREN", "RBRACKET"}

BinaryLexemes == UNION { PrecedenceTable[k] : k \in 1..Len(PrecedenceTable) }

\* The brackets of tokens[a..i-1] left open.
Nesting(a, i) ==
    Cardinality({ j \in a..(i - 1) : tokens[j].type \in OpenBrackets })
    - Cardinality({ j \in a..(i - 1) : tokens[j].type \in CloseBrackets })

\* tokens[i] is a binary operator of tokens[a..b], outside brackets: it
\* follows the end of an operand.
BinaryAt(a, i) ==
    /\ i > a
    /\ tokens[i].type # "IDENTIFIER"
    /\ tokens[i].lexeme \in BinaryLexemes
    /\ tokens[i - 1].type \in OperandEnd
    /\ Nesting(a, i) = 0

\* The bracket that tokens[b] closes in tokens[a..b], or 0.
Opener(a, b) ==
    LET js == { j \in a..(b - 1) :
                  tokens[j].type \in OpenBrackets /\ Nesting(j + 1, b) = 0 }
    IN  IF js = {} THEN 0 ELSE CHOOSE j \in js : \A n \in js : n <= j

\* The first comma of tokens[a..b] outside brackets, or 0.
Comma(a, b) ==
    LET cs == { c \in a..b : tokens[c].type = "COMMA" /\ Nesting(a, c) = 0 }
    IN  IF cs = {} THEN 0 ELSE CHOOSE c \in cs : \A n \in cs : c <= n

\* The split point of tokens[a..b]: the rightmost of its loosest binary
\* operators, or 0.
SplitAt(a, b) ==
    LET ops == { i \in a..b : BinaryAt(a, i) }
        Level(i) == Precedence(tokens[i].lexeme)
    IN  IF ops = {} THEN 0
        ELSE CHOOSE i \in ops :
                 \A n \in ops :
                     Level(i) < Level(n) \/ (Level(i) = Level(n) /\ n <= i)

RECURSIVE Reference(_, _)
RECURSIVE ReferenceItems(_, _)
Reference(a, b) ==
    IF a > b THEN Malformed
    ELSE IF SplitAt(a, b) # 0
    THEN [kind |-> "BinaryOp",
          left |-> Reference(a, SplitAt(a, b) - 1),
          operator |-> tokens[SplitAt(a, b)].lexeme,
          right |-> Reference(SplitAt(a, b) + 1, b)]
    ELSE IF tokens[a].type \in {"MINUS", "NOT", "TILDE"}
    THEN [kind |-> "UnaryOp", operator |-> tokens[a].lexeme,
          operand |-> Reference(a + 1, b)]
    ELSE IF a = b
    THEN CASE tokens[a].type = "IDENTIFIER" ->
                 [kind |-> "Identifier", name |-> tokens[a].lexeme]
           [] tokens[a].type = "INTEGER" ->
                 [kind |-> "Literal", value |-> tokens[a].literal]
           [] OTHER -> Malformed
    ELSE IF tokens[b].type = "IDENTIFIER" /\ tokens[b - 1].type = "DOT"
    THEN [kind |-> "Member", object |-> Reference(a, b - 2),
          member |-> tokens[b].lexeme]
    ELSE IF tokens[b].type = "RPAREN" /\ Opener(a, b) # 0
            /\ tokens[Max(1, Opener(a, b))].type = "LPAREN"
    THEN IF Opener(a, b) = a
         THEN Reference(a + 1, b - 1)
         ELSE [kind |-> "Call", function |-> Reference(a, Opener(a, b) - 1),
               arguments |-> IF Opener(a, b) + 1 = b THEN <<>>
                             ELSE ReferenceItems(Opener(a, b) + 1, b - 1)]
    ELSE IF tokens[b].type = "RBRACKET" /\ Opener(a, b) # 0
            /\ tokens[Max(1, Opener(a, b))].type = "LBRACKET"
    THEN IF Opener(a, b) = a
         THEN [kind |-> "ListLiteral",
               elements |-> IF a + 1 = b THEN <<>>
                            ELSE ReferenceItems(a + 1, b - 1)]
         ELSE [kind |-> "Index", object |-> Reference(a, Opener(a, b) - 1),
               index |-> Reference(Opener(a, b) + 1, b - 1)]
    ELSE Malformed

\* The expressions of tokens[a..b] between its commas outside brackets.
ReferenceItems(a, b) ==
    IF Comma(a, b) = 0 THEN <<Reference(a, b)>>
    ELSE <<Reference(a, Comma(a, b) - 1)>> \o ReferenceItems(Comma(a, b) + 1, b)

\* No part of the reference tree r is Malformed.
RECURSIVE WellFormed(_)
WellFormed(r) ==
    CASE r.kind = "BinaryOp" -> WellFormed(r.left) /\ WellFormed(r.right)
      [] r.kind = "UnaryOp" -> WellFormed(r.operand)
      [] r.kind = "Member" -> WellFormed(r.object)
      [] r.kind = "Index" -> WellFormed(r.object) /\ WellFormed(r.index)
      [] r.kind = "Call" ->
            /\ WellFormed(r.function)
            /\ \A n \in 1..Len(r.arguments) : WellFormed(r.arguments[n])
      [] r.kind = "ListLiteral" ->
            \A n \in 1..Len(r.elements) : WellFormed(r.elements[n])
      [] OTHER -> r.kind # "Malformed"

\* The parsed tree e without its locations.
RECURSIVE Shape(_)
Shape(e) ==
    CASE e.kind = "BinaryOp" ->
            [kind |-> "BinaryOp", left |-> Shape(e.left),
             operator |-> e.operator, right |-> Shape(e.right)]
      [] e.kind = "UnaryOp" ->
            [kind |-> "UnaryOp", operator |-> e.operator,
             operand |-> Shape(e.operand)]
      [] e.kind = "Member" ->
            [kind |-> "Member", object |-> Shape(e.object), member |-> e.member]
      [] e.kind = "Index" ->
            [kind |-> "Index", object |-> Shape(e.object), index |-> Shape(e.index)]
      [] e.kind = "Call" ->
            [kind |-> "Call", function |-> Shape(e.function),
             arguments |-> [n \in 1..Len(e.arguments) |-> Shape(e.arguments[n])]]
      [] e.kind = "ListLiteral" ->
            [kind |-> "ListLiteral",
             elements |-> [n \in 1..Len(e.elements) |-> Shape(e.elements[n])]]
      [] e.kind = "Identifier" -> [kind |-> "Identifier", name |-> e.name]
      [] e.kind = "Literal" -> [kind |-> "Literal", value |-> e.value]
      [] OTHER -> [kind |-> e.kind]

\* The token types of expressions.
ExpressionTypes ==
    PlainTypes \cup {"INTEGER", "LPAREN", "RPAREN", "LBRACKET", "RBRACKET",
                     "COMMA", "DOT"}

\* The tokens are a function whose body is expressions only, on one line.
ExpressionBody ==
    /\ stage = "parse"
    /\ Len(tokens) > Len(BodyOpening) + 1
    /\ \A i \in 1..Len(BodyOpening) : tokens[i].type = BodyOpening[i]
    /\ \A i \in (Len(BodyOpening) + 1)..(Len(tokens) - 1) :
           tokens[i].type \in ExpressionTypes

\* Where the expression statements of such a body start: at its first
\* token, and outside brackets at every token that starts an operand right
\* after the end of one (a binary operator, `(`, `[` or `.` there carries
\* the expression on).
StatementStarts ==
    {Len(BodyOpening) + 1}
    \cup { i \in (Len(BodyOpening) + 2)..(Len(tokens) - 1) :
             /\ Nesting(Len(BodyOpening) + 1, i) = 0
             /\ tokens[i - 1].type \in OperandEnd
             /\ tokens[i].type \in {"IDENTIFIER", "INTEGER", "NOT", "TILDE"} }

\* The reference tree of the statement that starts at token a.
ReferenceFrom(a) ==
    Reference(a, IF \E n \in StatementStarts : n > a
                 THEN (CHOOSE n \in StatementStarts :
                          n > a /\ \A o \in StatementStarts : o > a => n <= o) - 1
                 ELSE Len(tokens) - 1)

\* The reference trees of the body's statements, in order.
RECURSIVE ReferenceStatements(_)
ReferenceStatements(a) ==
    <<ReferenceFrom(a)>>
    \o IF \E n \in StatementStarts : n > a
       THEN ReferenceStatements(CHOOSE n \in StatementStarts :
                                    n > a /\ \A o \in StatementStarts : o > a => n <= o)
       ELSE <<>>

\* C16: expressions parse with the precedence or < and < equality (== !=)
\* < relational (< > <= >=) < additive (+ -) < multiplicative (* / %)
\* < unary (- not ~) < postfix < primary: every binary level groups to the
\* left, a tighter operator is a child of a looser one, prefix operators
\* nest to the right.  A body of expressions parses exactly if every
\* statement of it has a tree by these rules, and then each parsed
\* statement is that tree; the tree of a body of names and operators reads
\* as its tokens from left to right.
C16_Precedence ==
    /\ (ExpressionBody /\ parse_status \in {"returned", "raised"}) =>
          /\ (parse_status = "returned") =
                (\A n \in 1..Len(ReferenceStatements(Len(BodyOpening) + 1)) :
                     WellFormed(ReferenceStatements(Len(BodyOpening) + 1)[n]))
          /\ parse_status = "returned" =>
                /\ Len(program.declarations) = 1
                /\ [k \in 1..Len(program.declarations[1].body.statements) |->
                        Shape(program.declarations[1].body.statements[k])]
                     = ReferenceStatements(Len(BodyOpening) + 1)
    /\ (parse_status = "returned" /\ PlainBody) =>
          /\ Len(program.declarations) = 1
          /\ YieldAll(program.declarations[1].body.statements, 1) =
                 [i \in 1..(Len(tokens) - Len(BodyOpening) - 1) |->
                      tokens[Len(BodyOpening) + i].lexeme]
          /\ \A k \in 1..Len(program.declarations[1].body.statements) :
                 LET st == program.declarations[1].body.statements[k]
                 IN  /\ GroupedByPrecedence(st)
                     /\ k > 1 =>
                           Yield(st)[1] \notin UNION { PrecedenceTable[j] :
                                                      j \in 1..Len(PrecedenceTable) }

\* `- x.x * (x + x)` was parsed as (-(x.x)) * (x + x): the member access
\* binds tighter than the prefix operator, the prefix operator tighter than
\* `*`, and the parenthesised sum is an operand of `*`.
C16_Witness ==
    /\ parse_status = "returned"
    /\ ExpressionBody
    /\ [i \in 1..(Len(tokens) - Len(BodyOpening) - 1) |->
            tokens[Len(BodyOpening) + i].lexeme]
         = <<"-", "x", ".", "x", "*", "(", "x", "+", "x", ")">>
    /\ Len(program.declarations) = 1
    /\ Len(program.declarations[1].body.statements) = 1
    /\ Shape(program.declarations[1].body.statements[1])
         = [kind |-> "BinaryOp",
            left |-> [kind |-> "UnaryOp", operator |-> "-",
                      operand |-> [kind |-> "Member",
                                   object |-> [kind |-> "Identifier", name |-> "x"],
                                   member |-> "x"]],
            operator |-> "*",
            right |-> [kind |-> "BinaryOp",
                       left |-> [kind |-> "Identifier", name |-> "x"],
                       operator |-> "+",
                       right |-> [kind |-> "Identifier", name |-> "x"]]]

-----------------------------------------------------------------------------
(* Diagnostics of the checker (checked under SpecCheck).  The diagnostics  *)
(* a program must get are computed from the names bound where each         *)
(* identifier is read; a walk w is [bound, reads]: the names bound in the  *)
(* current scope or an enclosing one, and the identifiers read unbound so  *)
(* far, in order.                                                          *)

RECURSIVE UnboundReads(_, _)
UnboundReads(e, bound) ==
    CASE e.kind = "Identifier" -> IF e.name \in bound THEN <<>> ELSE <<e>>
      [] e.kind = "BinaryOp" ->
            UnboundReads(e.left, bound) \o UnboundReads(e.right, bound)
      [] e.kind = "UnaryOp" -> UnboundReads(e.operand, bound)
      [] e.kind = "Call" ->
            LET RECURSIVE Args(_)
                Args(i) == IF i > Len(e.arguments) THEN <<>>
                           ELSE UnboundReads(e.arguments[i], bound) \o Args(i + 1)
            IN  UnboundReads(e.function, bound) \o Args(1)
      [] e.kind = "Member" -> UnboundReads(e.object, bound)
      [] e.kind = "Index" ->
            UnboundReads(e.object, bound) \o UnboundReads(e.index, bound)
      [] e.kind = "ListLiteral" ->
            LET RECURSIVE Elems(_)
                Elems(i) == IF i > Len(e.elements) THEN <<>>
                            ELSE UnboundReads(e.elements[i], bound) \o Elems(i + 1)
            IN  Elems(1)
      [] OTHER -> <<>>

\* The walk after the expression e is read.
Read(w, e) == [w EXCEPT !.reads = @ \o UnboundReads(e, w.bound)]

\* The walk after the statements sts[i..]; a nested block sees the names
\* bound before it and leaves the bound names as they were.
RECURSIVE Walk(_, _, _)
Walk(w, sts, i) ==
    IF i > Len(sts) THEN w
    ELSE
    LET st == sts[i]
        Nested(w0, b) == IF b.kind = "None" THEN w0
                         ELSE [w0 EXCEPT !.reads = Walk(w0, b.statements, 1).reads]
        after ==
          CASE st.kind = "Return" ->
                  IF st.value.kind = "None" THEN w ELSE Read(w, st.value)
            [] st.kind \in {"If", "Ensure"} ->
                  Nested(Nested(Read(w, st.condition), st.then_block), st.else_block)
            [] st.kind = "While" -> Nested(Read(w, st.condition), st.body)
            [] st.kind = "Assignment" ->
                  IF st.target.kind = "Identifier"
                  THEN [Read(w, st.value) EXCEPT !.bound = @ \cup {st.target.name}]
                  ELSE Read(w, st.value)
            [] st.kind \in {"Break", "Continue"} -> w
            [] OTHER -> Read(w, st)
    IN  Walk(after, sts, i + 1)

\* The names bound in the global scope: the built-in functions and the
\* program's functions.
GlobalNames ==
    DOMAIN Builtins \cup { program.declarations[i].name : i \in 1..Declarations }

\* The identifiers read unbound in the functions from the i-th on.
RECURSIVE UnboundFrom(_)
UnboundFrom(i) ==
    IF i > Declarations THEN <<>>
    ELSE LET func == program.declarations[i]
             w0 == [bound |-> GlobalNames
                                \cup { func.inputs[j].name : j \in 1..Len(func.inputs) },
                    reads |-> <<>>]
         IN  Walk(w0, func.body.statements, 1).reads \o UnboundFrom(i + 1)

\* The diagnostic for an identifier read unbound.
Undefined(ident) ==
    TypeCheckError("Undefined variable: " \o ident.name, ident.location)

\* C17: check_program records a diagnostic exactly for each identifier read
\* where its name has no binding in the current or an enclosing scope, one
\* per occurrence and in order, going on after each, and returns true iff
\* it recorded none.
C17_OnlyUndefinedVariable ==
    check_status = "returned" =>
        /\ errors = [i \in 1..Len(UnboundFrom(1)) |-> Undefined(UnboundFrom(1)[i])]
        /\ Last(check_runs).returned
        /\ Last(check_runs).success = (Len(errors) = 0)
        /\ Last(check_runs).errors = errors

\* check_program returned false with three diagnostics: for z, and for y
\* read twice (once as the object of an indexed member access) before any
\* assignment to it.
C17_Witness ==
    /\ check_status = "returned"
    /\ ~Last(check_runs).success
    /\ Len(errors) = 3
    /\ errors[1].message = "Undefined variable: y"
    /\ errors[2].message = "Undefined variable: z"
    /\ errors[3].message = "Undefined variable: y"
    /\ errors[1].location # errors[3].location
    /\ Len(program.declarations) = 1
    /\ program.declarations[1].body.statements[1].kind = "UnaryOp"

-----------------------------------------------------------------------------
(* Scopes of nested blocks (checked under SpecCheck).                      *)

\* The checker as check_function has it before the i-th statement of the
\* body of func, in a check_program call whose first pass is over.
BeforeStatement(func, i) ==
    check_statements(
        define_parameters(CheckState(<<global_env, <<>>>>, errors, VOID_TYPE),
                          func.inputs, 1),
        SubSeq(func.body.statements, 1, i - 1), 1)

\* The names the statements of a block assign, at any depth.
RECURSIVE AssignedIn(_)
AssignedIn(blk) ==
    IF blk.kind = "None" THEN {}
    ELSE UNION { LET st == blk.statements[i]
                 IN  CASE st.kind = "Assignment" ->
                             IF st.target.kind = "Identifier"
                             THEN {st.target.name} ELSE {}
                       [] st.kind \in {"If", "Ensure"} ->
                             AssignedIn(st.then_block) \cup AssignedIn(st.else_block)
                       [] st.kind = "While" -> AssignedIn(st.body)
                       [] OTHER -> {}
                 : i \in 1..Len(blk.statements) }

BlocksOf(st) ==
    IF st.kind = "While" THEN {st.body} ELSE {st.then_block, st.else_block}

\* C18: an assignment inside the block of an if/else, while or
\* ensure/otherwise binds its name only in the block's child scope: after
\* the statement the scope chain is the one before it, with the same
\* bindings, so a name the block assigned has the binding it had before, or
\* none.
C18_BlockLocalScope ==
    (check_status = "running" /\ check_idx > Declarations) =>
        \A f \in 1..Declarations :
            \A i \in 1..Len(program.declarations[f].body.statements) :
                LET func == program.declarations[f]
                    st == func.body.statements[i]
                    before == BeforeStatement(func, i)
                    after == check_statement(before, st)
                IN  st.kind \in {"If", "While", "Ensure"} =>
                        /\ after.env = before.env
                        /\ \A b \in BlocksOf(st) : \A n \in AssignedIn(b) :
                               lookup(after.env, n) = lookup(before.env, n)

\* The body is an if/ensure whose then-block assigns y, followed by
\* `return y`: the checker returned with y reported undefined at the return
\* on line 20.
C18_Witness ==
    /\ check_status = "returned"
    /\ Len(program.declarations) = 1
    /\ Len(program.declarations[1].body.statements) = 2
    /\ program.declarations[1].body.statements[1].kind \in {"If", "Ensure"}
    /\ program.declarations[1].body.statements[1].else_block.kind = "Block"
    /\ "y" \in AssignedIn(program.declarations[1].body.statements[1].then_block)
    /\ program.declarations[1].body.statements[2].kind = "Return"
    /\ Len(errors) > 0
    /\ Last(errors) = TypeCheckError("Undefined variable: y", Loc(20, 8))

-----------------------------------------------------------------------------
(* The two spellings of a conditional: a token sequence is parsed, then    *)
(* the same tokens with `ensure` spelt `if` and `otherwise` spelt `else`   *)
(* are given to a new Parser.                                              *)

\* The tokens with every `ensure` replaced by `if` and every `otherwise` by
\* `else`, each at the same location.
Respelt(toks) ==
    [ i \in 1..Len(toks) |->
        CASE toks[i].type = "ENSURE" ->
                Token("IF", "if", toks[i].location, toks[i].literal)
          [] toks[i].type = "OTHERWISE" ->
                Token("ELSE", "else", toks[i].location, toks[i].literal)
          [] OTHER -> toks[i] ]

\* Parser(respelt tokens).parse() up to `self.current = 0`, once the parse
\* of the tokens as they were has ended; its outcome is kept in parse_runs.
ParseRespelt ==
    /\ stage = "parse"
    /\ parse_status \in {"returned", "raised"}
    /\ parse_runs = <<>>
    /\ parse_runs' = << [tokens |-> tokens, status |-> parse_status,
                         program |-> program, error |-> parse_error] >>
    /\ tokens' = Respelt(tokens)
    /\ current' = 0
    /\ pc' = "parse"
    /\ function' = NoneNode
    /\ params' = <<>>
    /\ program' = Program(<<>>)
    /\ parse_status' = "running"
    /\ parse_error' = NoError
    /\ iters' = 0
    /\ UNCHANGED <<source, pos, line, column, starts, lex_status, lex_error>>
    /\ UNCHANGED <<checkVars, genVars, stage>>

\* A whole function with inputs and requirements up to its body.
FullOpening ==
    FunctionOpening \o
    <<"INPUTS", "COLON", "NEWLINE", "IDENTIFIER", "NEWLINE",
      "REQUIREMENTS", "COLON", "NEWLINE", "MINUS", "IDENTIFIER", "NEWLINE",
      "IMPLEMENTATION", "COLON", "NEWLINE">>

\* Bodies that start with an ensure whose then-block is in braces, or is
\* one indented statement, or that are made of both spellings' keywords.
RespellContexts ==
    { [opening |-> BodyOpening \o <<"ENSURE", "IDENTIFIER", "COLON", "LBRACE",
                                    "IDENTIFIER", "RBRACE">>,
       types |-> {"NEWLINE", "OTHERWISE", "COLON", "IDENTIFIER", "RBRACE",
                  "ENSURE"}],
      [opening |-> BodyOpening \o <<"ENSURE", "IDENTIFIER", "COLON", "IDENTIFIER",
                                    "NEWLINE">>,
       types |-> {"OTHERWISE", "COLON", "NEWLINE", "IDENTIFIER", "ENSURE",
                  "RETURN"}],
      [opening |-> FullOpening,
       types |-> {"ENSURE", "OTHERWISE", "IF", "COLON", "IDENTIFIER", "NEWLINE"}] }

InitRespell ==
    /\ source = <<>> /\ pos = 0 /\ line = 1 /\ column = 1 /\ starts = <<>>
    /\ lex_status = "returned" /\ lex_error = NoError
    /\ \E ctx \in RespellContexts :
           \E rest \in SeqsUpTo(ctx.types, MaxTokens) :
               tokens = Located(ctx.opening \o rest \o <<"EOF">>)
    /\ current = 0 /\ pc = "parse" /\ function = NoneNode /\ params = <<>>
    /\ program = Program(<<>>)
    /\ parse_status = "running" /\ parse_error = NoError /\ iters = 0
    /\ parse_runs = <<>>
    /\ CheckIdle /\ GenIdle
    /\ stage = "parse"

NextRespell == Parse \/ ParseRespelt

SpecRespell == InitRespell /\ [][NextRespell]_vars

\* The tree with an If node for every Ensure node.
RECURSIVE AsIf(_)
AsIfBlock(b) ==
    IF b.kind = "None" THEN b
    ELSE Block(b.location, [i \in 1..Len(b.statements) |-> AsIf(b.statements[i])])

AsIf(st) ==
    CASE st.kind \in {"If", "Ensure"} ->
            If(st.location, st.condition, AsIfBlock(st.then_block),
               AsIfBlock(st.else_block))
      [] st.kind = "While" -> While(st.location, st.condition, AsIfBlock(st.body))
      [] OTHER -> st

AsIfFunction(func) == [func EXCEPT !.body = AsIfBlock(func.body)]

AsIfProgram(prog) ==
    Program([i \in 1..Len(prog.declarations) |-> AsIfFunction(prog.declarations[i])])

\* C19: ensure/otherwise is an alternate spelling of if/else: the respelt
\* tokens parse iff the tokens as they were do, to the same tree with If
\* nodes where the Ensure nodes were, and the generator emits the same code
\* for a function in either spelling.
C19_EnsureIsIf ==
    (parse_runs # <<>> /\ parse_status \in {"returned", "raised"}) =>
        /\ (parse_status = "returned") = (parse_runs[1].status = "returned")
        /\ parse_status = "returned" =>
              program = AsIfProgram(parse_runs[1].program)
        /\ parse_runs[1].status = "returned" =>
              \A i \in 1..Len(parse_runs[1].program.declarations) :
                  generate_function(0, <<>>, parse_runs[1].program.declarations[i]).out
                  = generate_function(
                        0, <<>>,
                        AsIfFunction(parse_runs[1].program.declarations[i])).out

\* C19, reached: `ensure x: { x }`, a newline, `otherwise: x` parsed to an
\* Ensure with an else-block; the same tokens spelt if/else raised a
\* ParseError at the `else`.
C19_Reached ==
    /\ parse_runs # <<>>
    /\ parse_runs[1].status = "returned"
    /\ Len(parse_runs[1].program.declarations) = 1
    /\ Len(parse_runs[1].program.declarations[1].body.statements) = 1
    /\ parse_runs[1].program.declarations[1].body.statements[1].kind = "Ensure"
    /\ parse_runs[1].program.declarations[1].body.statements[1].else_block.kind
           = "Block"
    /\ parse_status = "raised"
    /\ Len(tokens) = Len(BodyOpening) + 11
    /\ tokens[Len(BodyOpening) + 6].type = "RBRACE"
    /\ tokens[Len(BodyOpening) + 7].type = "NEWLINE"
    /\ tokens[Len(BodyOpening) + 8].type = "ELSE"
    /\ parse_error.location = tokens[Len(BodyOpening) + 8].location

-----------------------------------------------------------------------------
(* The code of if and ensure statements (checked under SpecGen).           *)

\* The opcodes generate_block emits for a block inside a loop (so that a
\* break or continue in it has a loop to leave), an absent block emitting
\* nothing.
BlockOpcodes(b) ==
    LET c == generate_else_block(
                 push_loop(GenState(<<>>, 0, <<>>), label_name(0), 0), b).instructions
    IN  [i \in 1..Len(c) |-> c[i].opcode]

\* Every if and ensure among sts[i..], whose code starts at index off
\* (0-based) of code, has the shape: condition code, JUMP_IF_FALSE t1,
\* then-block code, JUMP t2, else-block code, with t1 the index just after
\* the JUMP and t2 the index just after the else-block's last instruction.
RECURSIVE IfsShaped(_, _, _, _)
IfsShaped(code, sts, i, off) ==
    IF i > Len(sts) THEN TRUE
    ELSE
    LET st == sts[i]
        c  == ExprSize(st.condition)
        In(b, o) == b.kind = "None" \/ IfsShaped(code, b.statements, 1, o)
        here ==
          CASE st.kind \in {"If", "Ensure"} ->
                  LET t1 == off + c + 1 + BlockSize(st.then_block) + 1
                      t2 == t1 + BlockSize(st.else_block)
                  IN  /\ [j \in 1..c |-> code[off + j].opcode] = ExprOpcodes(st.condition)
                      /\ code[off + c + 1] = Instruction("JUMP_IF_FALSE", IntVal(t1))
                      /\ [j \in 1..BlockSize(st.then_block) |-> code[off + c + 1 + j].opcode]
                             = BlockOpcodes(st.then_block)
                      /\ code[t1] = Instruction("JUMP", IntVal(t2))
                      /\ [j \in 1..BlockSize(st.else_block) |-> code[t1 + j].opcode]
                             = BlockOpcodes(st.else_block)
                      /\ In(st.then_block, off + c + 1)
                      /\ In(st.else_block, t1)
            [] st.kind = "While" -> In(st.body, off + c + 1)
            [] OTHER -> TRUE
    IN  here /\ IfsShaped(code, sts, i + 1, off + StmtSize(st))

\* C20: for every if and ensure statement the generated code is condition
\* code, JUMP_IF_FALSE t1, then-block code, JUMP t2, else-block code (empty
\* without an else/otherwise), where t1 is the index of the instruction just
\* after the JUMP and t2 the index just after the last else-block instruction.
C20_IfShape ==
    \A k \in 1..Len(gen_log) :
        gen_log[k].error = "" =>
            IfsShaped(gen_log[k].code, GenFunc(k).body.statements, 1, 0)

\* C20, reached: a function was generated whose body is one if or ensure
\* with a then-block and an else-block of one statement each, the first
\* jump leading to the else-block and the second past it.
C20_Witness ==
    /\ gen_status = "returned"
    /\ Len(gen_log) = 1
    /\ gen_log[1].error = ""
    /\ Len(GenFunc(1).body.statements) = 1
    /\ GenFunc(1).body.statements[1].kind \in {"If", "Ensure"}
    /\ GenFunc(1).body.statements[1].else_block.kind = "Block"
    /\ BlockSize(GenFunc(1).body.statements[1].then_block) > 0
    /\ BlockSize(GenFunc(1).body.statements[1].else_block) > 0
    /\ \E a \in 1..Len(gen_log[1].code) : \E b \in 1..Len(gen_log[1].code) :
           /\ a = ExprSize(GenFunc(1).body.statements[1].condition) + 1
           /\ gen_log[1].code[a] = Instruction("JUMP_IF_FALSE", IntVal(b))
           /\ gen_log[1].code[b].opcode = "JUMP"
           /\ gen_log[1].code[b].operand.v > b

-----------------------------------------------------------------------------
(* The targets of break and continue (checked under SpecGen).              *)

\* Every break among sts[i..] (code from index off, 0-based) is a JUMP to e
\* and every continue a JUMP to s, where s and e are the first condition
\* index of the innermost while loop around it and the index just after that
\* loop's backward JUMP; a loop inside sts has its own s and e.
RECURSIVE LoopJumps(_, _, _, _, _, _)
LoopJumps(code, sts, i, off, s, e) ==
    IF i > Len(sts) THEN TRUE
    ELSE
    LET st == sts[i]
        c  == ExprSize(st.condition)
        In(b, o, s1, e1) ==
            b.kind = "None" \/ LoopJumps(code, b.statements, 1, o, s1, e1)
        here ==
          CASE st.kind = "Break"    -> code[off + 1] = Instruction("JUMP", IntVal(e))
            [] st.kind = "Continue" -> code[off + 1] = Instruction("JUMP", IntVal(s))
            [] st.kind = "While" ->
                  /\ code[off + c + 1 + BlockSize(st.body) + 1].opcode = "JUMP"
                  /\ In(st.body, off + c + 1, off,
                        off + c + 1 + BlockSize(st.body) + 1)
            [] st.kind \in {"If", "Ensure"} ->
                  /\ In(st.then_block, off + c + 1, s, e)
                  /\ In(st.else_block,
                        off + c + 1 + BlockSize(st.then_block) + 1, s, e)
            [] OTHER -> TRUE
    IN  here /\ LoopJumps(code, sts, i + 1, off + StmtSize(st), s, e)

\* C21: each break compiles to a JUMP to the index just after the backward
\* JUMP of the innermost enclosing while loop and each continue to a JUMP to
\* that loop's first condition instruction, however loops and if/ensure
\* statements are nested; after an inner loop the outer loop's break and
\* continue target the outer loop.
C21_BreakContinueTargets ==
    \A k \in 1..Len(gen_log) :
        gen_log[k].error = "" =>
            LoopJumps(gen_log[k].code, GenFunc(k).body.statements, 1, 0, -1, -1)

\* C21, reached: a loop whose body is an inner loop followed by a break or
\* continue was generated; the inner loop ends at index 9, the outer one at
\* index 11 (break) or starts at index 0 (continue).
C21_Witness ==
    /\ gen_status = "returned"
    /\ Len(gen_log) = 1
    /\ gen_log[1].error = ""
    /\ Len(GenFunc(1).body.statements) = 1
    /\ GenFunc(1).body.statements[1].kind = "While"
    /\ Len(GenFunc(1).body.statements[1].body.statements) = 2
    /\ GenFunc(1).body.statements[1].body.statements[1].kind = "While"
    /\ GenFunc(1).body.statements[1].body.statements[1].body.statements = <<>>
    /\ GenFunc(1).body.statements[1].body.statements[2].kind
           \in {"Break", "Continue"}
    /\ gen_log[1].code[8] = Instruction("JUMP_IF_FALSE", IntVal(9))
    /\ gen_log[1].code[9] = Instruction("JUMP", IntVal(4))
    /\ gen_log[1].code[10] \in {Instruction("JUMP", IntVal(11)),
                                Instruction("JUMP", IntVal(0))}
    /\ gen_log[1].code[11] = Instruction("JUMP", IntVal(0))

-----------------------------------------------------------------------------
(* The code of calls (checked under SpecGen).                              *)

\* The instructions generate_expression emits for e from scratch.
ExprCode(e) == generate_expression(GenState(<<>>, 0, <<>>), e).instructions

\* The code of args[i..], one argument after the other from the left.
RECURSIVE ArgumentsInOrder(_, _)
ArgumentsInOrder(args, i) ==
    IF i > Len(args) THEN <<>>
    ELSE ExprCode(args[i]) \o ArgumentsInOrder(args, i + 1)

\* The instruction that ends the code of a call of a name.
CallInstruction(call) ==
    CASE call.function.name = "print"   -> Instruction("PRINT", NoneVal)
      [] call.function.name = "println" -> Instruction("PRINTLN", NoneVal)
      [] OTHER -> Instruction("CALL", CallVal(call.function.name,
                                              Len(call.arguments)))

\* The statements before the i-th generate without an exception.
GeneratedUpTo(sts, i) ==
    ~Raised(generate_statements(GenState(<<>>, 0, <<>>), SubSeq(sts, 1, i - 1), 1))

\* C22: for a call of a name the arguments' code comes first, from left to
\* right, then PRINT for print, PRINTLN for println and CALL (name, number
\* of arguments) for any other name; a call of anything but a name raises
\* a generation error.
C22_CallCode ==
    \A k \in 1..Len(gen_log) :
        \A i \in 1..Len(GenFunc(k).body.statements) :
            LET sts  == GenFunc(k).body.statements
                off  == StmtsSize(SubSeq(sts, 1, i - 1), 1)
                args == ArgumentsInOrder(sts[i].arguments, 1)
            IN  (sts[i].kind = "Call" /\ GeneratedUpTo(sts, i)) =>
                    IF sts[i].function.kind = "Identifier"
                    THEN gen_log[k].error = "" =>
                            [j \in 1..(Len(args) + 1) |-> gen_log[k].code[off + j]]
                                = Append(args, CallInstruction(sts[i]))
                    ELSE gen_log[k].error
                            = "Only simple function calls supported in bootstrap"

\* C22, reached: println(1, x), f(1) and print() were generated in this
\* order: LOAD_CONST 1, LOAD_VAR x, PRINTLN, POP, LOAD_CONST 1, CALL (f, 1),
\* POP, PRINT, POP.
C22_Witness ==
    /\ gen_status = "returned"
    /\ Len(gen_log) = 1
    /\ gen_log[1].error = ""
    /\ GenFunc(1).body.statements
           = << Call(L1, Identifier(L1, "println"), <<Lit1, VarX>>),
                Call(L1, Identifier(L1, "f"), <<Lit1>>),
                Call(L1, Identifier(L1, "print"), <<>>) >>
    /\ SubSeq(gen_log[1].code, 1, 9)
           = << Instruction("LOAD_CONST", IntVal(1)),
                Instruction("LOAD_VAR", StrVal("x")),
                Instruction("PRINTLN", NoneVal),
                Instruction("POP", NoneVal),
                Instruction("LOAD_CONST", IntVal(1)),
                Instruction("CALL", CallVal("f", 1)),
                Instruction("POP", NoneVal),
                Instruction("PRINT", NoneVal),
                Instruction("POP", NoneVal) >>

-----------------------------------------------------------------------------
(* The code of assignments to a name (checked under SpecGen).              *)

\* The arithmetic opcode of a compound assignment operator.
CompoundOpcode(operator) ==
    CASE operator = "+=" -> "ADD"
      [] operator = "-=" -> "SUB"
      [] operator = "*=" -> "MUL"
      [] operator = "/=" -> "DIV"

\* The code claimed for an assignment to a name.
AssignmentCode(assign) ==
    IF assign.operator = "="
    THEN Append(ExprCode(assign.value),
                Instruction("STORE_VAR", StrVal(assign.target.name)))
    ELSE ExprCode(assign.value)
         \o << Instruction("LOAD_VAR", StrVal(assign.target.name)),
               Instruction(CompoundOpcode(assign.operator), NoneVal),
               Instruction("STORE_VAR", StrVal(assign.target.name)) >>

\* Every assignment to a name among sts[i..] (code from index off, 0-based)
\* is emitted as AssignmentCode, at any depth of if, ensure and while.
RECURSIVE AssignmentsShaped(_, _, _, _)
AssignmentsShaped(code, sts, i, off) ==
    IF i > Len(sts) THEN TRUE
    ELSE
    LET st == sts[i]
        c  == ExprSize(st.condition)
        In(b, o) == b.kind = "None" \/ AssignmentsShaped(code, b.statements, 1, o)
        here ==
          CASE st.kind = "Assignment" ->
                  (/\ st.target.kind = "Identifier"
                   /\ st.operator \in {"=", "+=", "-=", "*=", "/="}) =>
                      SubSeq(code, off + 1, off + Len(AssignmentCode(st)))
                          = AssignmentCode(st)
            [] st.kind = "While" -> In(st.body, off + c + 1)
            [] st.kind \in {"If", "Ensure"} ->
                  /\ In(st.then_block, off + c + 1)
                  /\ In(st.else_block, off + c + 1 + BlockSize(st.then_block) + 1)
            [] OTHER -> TRUE
    IN  here /\ AssignmentsShaped(code, sts, i + 1, off + StmtSize(st))

\* C23: `x op= e` with a name x and op= one of += -= *= /= is emitted as the
\* code of e, LOAD_VAR x, ADD / SUB / MUL / DIV, STORE_VAR x, and `x = e` as
\* the code of e, STORE_VAR x.
C23_AssignmentCode ==
    \A k \in 1..Len(gen_log) :
        gen_log[k].error = "" =>
            /\ AssignmentsShaped(gen_log[k].code, GenFunc(k).body.statements, 1, 0)
            /\ \A i \in 1..Len(GenFunc(k).body.statements) :
                   StmtSize(GenFunc(k).body.statements[i])
                       = Len(generate_statement(GenState(<<>>, 0, <<>>),
                                 GenFunc(k).body.statements[i]).instructions)

\* C23, reached: x = 3, x -= 3 and x /= 3 were generated in this order.
C23_Witness ==
    /\ gen_status = "returned"
    /\ Len(gen_log) = 1
    /\ gen_log[1].error = ""
    /\ GenFunc(1).body.statements
           = << Assignment(L1, VarX, Lit3, "="),
                Assignment(L1, VarX, Lit3, "-="),
                Assignment(L1, VarX, Lit3, "/=") >>
    /\ SubSeq(gen_log[1].code, 1, 10)
           = << Instruction("LOAD_CONST", IntVal(3)),
                Instruction("STORE_VAR", StrVal("x")),
                Instruction("LOAD_CONST", IntVal(3)),
                Instruction("LOAD_VAR", StrVal("x")),
                Instruction("SUB", NoneVal),
                Instruction("STORE_VAR", StrVal("x")),
                Instruction("LOAD_CONST", IntVal(3)),
                Instruction("LOAD_VAR", StrVal("x")),
                Instruction("DIV", NoneVal),
                Instruction("STORE_VAR", StrVal("x")) >>

-----------------------------------------------------------------------------
(* Programs whose names and string literals are spelt like labels: the     *)
(* generator on functions that use the names x, L0, L1 and the strings     *)
(* "L0" and "a", alone and after a function that has allocated labels.     *)

LabelNames == {"x", "L0", "L1"}

LabelStrings == {"L0", "a"}

LabelLeafs ==
    { Assignment(L1, Identifier(L1, n), Literal(L1, StrVal(s)), "=") :
          n \in LabelNames, s \in LabelStrings }
    \cup { Return(L1, Identifier(L1, n)) : n \in LabelNames }

LabelStmts ==
    LabelLeafs
    \cup { If(L1, VarX, Block(L1, <<st>>), NoneNode) : st \in LabelLeafs }
    \cup { While(L1, VarX, Block(L1, <<st>>)) : st \in LabelLeafs }

LabelBodies == UNION { [1..n -> LabelStmts] : n \in 1..2 }

\* The functions generated first: one with an if (two labels), one with a
\* while (one label).
LabelFirsts ==
    { Func("f", <<>>, <<If(L1, Lit1, Block(L1, <<Return(L1, Lit1)>>), NoneNode)>>),
      Func("f", <<>>, <<While(L1, VarX, Block(L1, <<Break(L1)>>))>>) }

LabelPrograms ==
    { Program(<<Func("g", <<>>, b)>>) : b \in LabelBodies }
    \cup { Program(<<f1, Func("g", <<>>, b)>>) : f1 \in LabelFirsts, b \in LabelBodies }

\* generate_bytecode(program) on a program of LabelPrograms.
InitLabels ==
    /\ LexIdle
    /\ current = 0 /\ pc = "idle" /\ function = NoneNode /\ params = <<>>
    /\ parse_status = "idle" /\ parse_error = NoError /\ iters = 0
    /\ parse_runs = <<>>
    /\ program \in LabelPrograms
    /\ CheckIdle
    /\ GenInit /\ gen_status = "running"
    /\ stage = "generate"

SpecLabels == InitLabels /\ [][NextGen]_vars

\* The instructions the generate_* methods emit for sts[i..] in order, as
\* they are before any label is patched, every jump with operand None.
RECURSIVE SourceCode(_, _)
SourceBlock(b) == IF b.kind = "None" THEN <<>> ELSE SourceCode(b.statements, 1)

StatementCode(st) ==
    CASE st.kind = "Return" ->
            Append(IF st.value.kind = "None"
                   THEN <<Instruction("LOAD_CONST", NoneVal)>>
                   ELSE ExprCode(st.value),
                   Instruction("RETURN", NoneVal))
      [] st.kind \in {"If", "Ensure"} ->
            ExprCode(st.condition) \o <<Instruction("JUMP_IF_FALSE", NoneVal)>>
            \o SourceBlock(st.then_block) \o <<Instruction("JUMP", NoneVal)>>
            \o SourceBlock(st.else_block)
      [] st.kind = "While" ->
            ExprCode(st.condition) \o <<Instruction("JUMP_IF_FALSE", NoneVal)>>
            \o SourceBlock(st.body) \o <<Instruction("JUMP", NoneVal)>>
      [] st.kind = "Assignment" ->
            IF st.target.kind = "Identifier" THEN AssignmentCode(st)
            ELSE ExprCode(st.value)
      [] st.kind \in {"Break", "Continue"} -> <<Instruction("JUMP", NoneVal)>>
      [] OTHER -> Append(ExprCode(st), Instruction("POP", NoneVal))

SourceCode(sts, i) ==
    IF i > Len(sts) THEN <<>>
    ELSE StatementCode(sts[i]) \o SourceCode(sts, i + 1)

\* C24: patch_label rewrites jumps only: in a finished function every
\* instruction that is not a jump has the opcode and operand it was emitted
\* with, so every LOAD_CONST operand is the source literal and every
\* LOAD_VAR / STORE_VAR operand the source name, whatever strings and names
\* the program uses.
C24_PatchRewritesJumpsOnly ==
    \A k \in 1..Len(gen_log) :
        gen_log[k].error = "" =>
            LET src == SourceCode(GenFunc(k).body.statements, 1)
            IN  /\ Len(src) = Len(gen_log[k].body)
                /\ \A j \in 1..Len(src) :
                       /\ gen_log[k].code[j].opcode = src[j].opcode
                       /\ src[j].opcode \notin JumpOpcodes =>
                              gen_log[k].code[j] = src[j]

\* C24, reached: the function g alone, `x = "L0"` then `if x: L1 = "a"`:
\* patching L0 and L1 to index 7 has rewritten the string constant "L0" and
\* the name L1 of the STORE_VAR to the integer 7.
C24_Reached ==
    /\ gen_status = "returned"
    /\ Len(program.declarations) = 1
    /\ GenFunc(1).body.statements
           = << Assignment(L1, VarX, Literal(L1, StrVal("L0")), "="),
                If(L1, VarX,
                   Block(L1, <<Assignment(L1, Identifier(L1, "L1"),
                                          Literal(L1, StrVal("a")), "=")>>),
                   NoneNode) >>
    /\ module["g"].instructions
           = << Instruction("LOAD_CONST", IntVal(7)),
                Instruction("STORE_VAR", StrVal("x")),
                Instruction("LOAD_VAR", StrVal("x")),
                Instruction("JUMP_IF_FALSE", IntVal(7)),
                Instruction("LOAD_CONST", StrVal("a")),
                Instruction("STORE_VAR", IntVal(7)),
                Instruction("JUMP", IntVal(7)),
                Instruction("LOAD_CONST", NoneVal),
                Instruction("RETURN", NoneVal) >>


\* C25: label and loop bookkeeping is per function: each generate_function
\* call starts with the label counter at 0 (its first label is L0) and an
\* empty loop stack, and the instructions it produces are those it produces
\* for the same function as the first of a program.
C25_PerFunctionLabels ==
    \A k \in 1..Len(gen_log) :
        /\ gen_log[k].counter = 0
        /\ gen_log[k].stack = <<>>
        /\ gen_log[k].code
               = generate_function(0, <<>>, GenFunc(k)).out.instructions

\* C25, reached: g (`x = "L0"`, `if x: x = "a"`) was generated after an f
\* that had allocated L0 and L1, so that g's labels were L2 and L3 and its
\* string constant "L0" was kept, while g generated first has it rewritten.
C25_Reached ==
    /\ gen_status = "returned"
    /\ Len(gen_log) = 2
    /\ gen_log[2].counter = 2
    /\ label_counter = 4
    /\ GenFunc(2).body.statements
           = << Assignment(L1, VarX, Literal(L1, StrVal("L0")), "="),
                If(L1, VarX,
                   Block(L1, <<Assignment(L1, VarX, Literal(L1, StrVal("a")), "=")>>),
                   NoneNode) >>
    /\ module["g"].instructions[1] = Instruction("LOAD_CONST", StrVal("L0"))
    /\ generate_function(0, <<>>, GenFunc(2)).out.instructions[1]
           = Instruction("LOAD_CONST", IntVal(7))

-----------------------------------------------------------------------------
(* The two forms of Parser.block (checked under SpecParse): block() called *)
(* at every position of the token sequence.                                *)

\* The tokens that end an indentation block, EOF apart.
BlockEnders == {"FUNCTION", "ELSE", "OTHERWISE"}

\* Statements parsed one after the other from p until, newlines skipped,
\* the next token is EOF or one of stops; the result's node is their list.
RECURSIVE StatementsUntil(_, _, _)
StatementsUntil(p, stops, acc) ==
    LET p1 == skip_newlines(p)
    IN  IF ParseRaised(p1) THEN p1
        ELSE IF parser_is_at_end(p1) \/ parser_peek(p1, 0).type \in stops
             THEN returns(p1, acc)
        ELSE LET st == statement(p1)
             IN  IF ParseRaised(st) THEN st
                 ELSE StatementsUntil(st, stops, Append(acc, st.node))

\* The number of `{` less the number of `}` among tokens[a..b].
RECURSIVE BraceDepth(_, _)
BraceDepth(a, b) ==
    IF b < a THEN 0
    ELSE BraceDepth(a, b - 1)
         + (CASE tokens[b].type = "LBRACE" -> 1
              [] tokens[b].type = "RBRACE" -> 0 - 1
              [] OTHER -> 0)

\* block() called with `{` as next token, at position q.
BraceForm(q) ==
    LET r  == block(ParseState(q, NoneNode))
        su == StatementsUntil(ParseState(q + 1, NoneNode), {"RBRACE"}, <<>>)
    IN  /\ ParseRaised(su) => r.error = su.error
        /\ (~ParseRaised(su) /\ parser_is_at_end(su)) =>
               /\ r.error.location = Last(tokens).location
               /\ r.error.message \in {"Expected '}' after block",
                                       "Unexpected token: "}
        /\ (~ParseRaised(su) /\ ~parser_is_at_end(su)) => ~ParseRaised(r)
        /\ ~ParseRaised(r) =>
               /\ r.node = Block(tokens[q + 1].location, su.node)
               /\ r.current = su.current + 1
               /\ tokens[r.current].type = "RBRACE"
               /\ BraceDepth(q + 1, r.current) = 0
               /\ \A k \in (q + 1)..(r.current - 1) : BraceDepth(q + 1, k) > 0

\* block() called with any other next token, at position q.
IndentForm(q) ==
    LET r  == block(ParseState(q, NoneNode))
        su == StatementsUntil(ParseState(q, NoneNode), BlockEnders, <<>>)
    IN  /\ ParseRaised(r) = ParseRaised(su)
        /\ ParseRaised(su) => r.error = su.error
        /\ ~ParseRaised(r) =>
               /\ r.node = Block(tokens[q + 1].location, su.node)
               /\ r.current = su.current
               /\ parser_peek(r, 0).type \in BlockEnders \cup {"EOF"}

\* C26: block() takes its form from its first token: after `{` it parses
\* statements up to the matching `}` and consumes it, raising ParseError
\* when the input ends first; otherwise it parses statements until, at a
\* statement boundary, the next token is `function`, `else`, `otherwise` or
\* EOF, which it leaves unconsumed, every statement before it being in the
\* block.
C26_BlockForms ==
    (stage = "parse" /\ parse_status \in {"returned", "raised"}) =>
        \A q \in 0..(Len(tokens) - 1) :
            IF tokens[q + 1].type = "LBRACE" THEN BraceForm(q) ELSE IndentForm(q)

\* C26, reached: the function body `{ if x: { x } }` was parsed: the inner
\* brace block ends after its own `}`, the outer one after the last `}`.
C26_Witness ==
    /\ stage = "parse"
    /\ parse_status = "returned"
    /\ Len(tokens) = Len(BodyOpening) + 9
    /\ tokens[Len(BodyOpening) + 1].type = "LBRACE"
    /\ tokens[Len(BodyOpening) + 5].type = "LBRACE"
    /\ tokens[Len(BodyOpening) + 7].type = "RBRACE"
    /\ tokens[Len(BodyOpening) + 8].type = "RBRACE"
    /\ Len(program.declarations) = 1
    /\ program.declarations[1].body.statements
           = << If(tokens[Len(BodyOpening) + 2].location,
                   Identifier(tokens[Len(BodyOpening) + 3].location, "x"),
                   Block(tokens[Len(BodyOpening) + 5].location,
                         <<Identifier(tokens[Len(BodyOpening) + 6].location, "x")>>),
                   NoneNode) >>
    /\ block(ParseState(Len(BodyOpening) + 4, NoneNode)).current
           = Len(BodyOpening) + 7

-----------------------------------------------------------------------------
(* Jump targets of the module generate returns (checked under SpecGen).    *)

\* C27: in every function of the returned module the operand of each JUMP
\* and JUMP_IF_FALSE is an integer t with 0 <= t < the number of the
\* function's instructions: every jump targets an existing instruction.
C27_JumpTargetsExist ==
    gen_status = "returned" =>
        \A name \in DOMAIN module :
            \A i \in 1..Len(module[name].instructions) :
                module[name].instructions[i].opcode \in JumpOpcodes =>
                    /\ module[name].instructions[i].operand.t = "int"
                    /\ module[name].instructions[i].operand.v >= 0
                    /\ module[name].instructions[i].operand.v
                           < Len(module[name].instructions)

\* C27, reached: `if x < 3: x += 1` with `else: return x` is the function's
\* last statement; its JUMP at index 8 has target 11, and the function has
\* eleven instructions (indices 0 to 10), no implicit return being added
\* after the RETURN.
C27_Reached ==
    /\ gen_status = "returned"
    /\ Len(program.declarations) = 1
    /\ GenFunc(1).body.statements
           = << If(L1, BinaryOp(L1, VarX, "<", Lit3),
                   Block(L1, <<Assignment(L1, VarX, Lit1, "+=")>>),
                   Block(L1, <<Return(L1, VarX)>>)) >>
    /\ Len(module["main"].instructions) = 11
    /\ module["main"].instructions[9] = Instruction("JUMP", IntVal(11))
    /\ module["main"].instructions[11] = Instruction("RETURN", NoneVal)

-----------------------------------------------------------------------------
(* What the code of an assignment computes (checked under SpecGen), under  *)
(* the operand convention of the opcodes (codegen.py:21-28): a binary      *)
(* opcode takes b from the top of the stack and a from below it and pushes *)
(* a op b.                                                                 *)

\* The values x has before the assignment.
XValues == {1, 5, 6}

\* a op b for an arithmetic opcode (DIV on integers without remainder).
Arith(opcode, a, b) ==
    CASE opcode = "ADD" -> a + b
      [] opcode = "SUB" -> a - b
      [] opcode = "MUL" -> a * b
      [] opcode = "DIV" -> a \div b

\* The stack and variables after code[j..] of straight-line code, run from
\* stack stk (top last) and variables env.
RECURSIVE Run(_, _, _, _)
Run(code, j, stk, env) ==
    IF j > Len(code) THEN [stack |-> stk, env |-> env]
    ELSE LET ins == code[j]
             n   == Len(stk)
         IN  CASE ins.opcode = "LOAD_CONST" ->
                      Run(code, j + 1, Append(stk, ins.operand.v), env)
               [] ins.opcode = "LOAD_VAR" ->
                      Run(code, j + 1, Append(stk, env[ins.operand.v]), env)
               [] ins.opcode = "STORE_VAR" ->
                      Run(code, j + 1, SubSeq(stk, 1, n - 1),
                          [env EXCEPT ![ins.operand.v] = stk[n]])
               [] ins.opcode \in {"ADD", "SUB", "MUL", "DIV"} ->
                      Run(code, j + 1,
                          Append(SubSeq(stk, 1, n - 2),
                                 Arith(ins.opcode, stk[n - 1], stk[n])),
                          env)

\* `x = x op e` for the assignment `x op= e`.
Desugared(assign) ==
    Assignment(assign.location, assign.target,
               BinaryOp(assign.location, assign.target,
                        CASE assign.operator = "+=" -> "+"
                          [] assign.operator = "-=" -> "-"
                          [] assign.operator = "*=" -> "*"
                          [] assign.operator = "/=" -> "/",
                        assign.value),
               "=")

\* The i-th statement of sts is a compound assignment to a name.
IsCompound(sts, i) ==
    /\ sts[i].kind = "Assignment"
    /\ sts[i].target.kind = "Identifier"
    /\ sts[i].operator \in {"+=", "-=", "*=", "/="}

\* The code of the i-th statement of function k in its finished code.
StatementCodeAt(k, i) ==
    LET off == StmtsSize(SubSeq(GenFunc(k).body.statements, 1, i - 1), 1)
    IN  SubSeq(gen_log[k].code, off + 1,
               off + StmtSize(GenFunc(k).body.statements[i]))

\* C28: the code generated for `x op= e` leaves in x the value the code
\* generated for `x = x op e` leaves there, for += -= *= /=: the opcode is
\* applied to the value of x as left operand and the value of e as right
\* operand.
C28_CompoundIsDesugared ==
    \A k \in 1..Len(gen_log) :
        gen_log[k].error = "" =>
            \A i \in 1..Len(GenFunc(k).body.statements) :
                IsCompound(GenFunc(k).body.statements, i) =>
                    \A v \in XValues :
                        Run(StatementCodeAt(k, i), 1, <<>>, [n \in {"x"} |-> v])
                        = Run(generate_statement(
                                  GenState(<<>>, 0, <<>>),
                                  Desugared(GenFunc(k).body.statements[i])).instructions,
                              1, <<>>, [n \in {"x"} |-> v])

\* C28, reached: `x -= 3` was generated as LOAD_CONST 3, LOAD_VAR x, SUB,
\* STORE_VAR x, which from x = 5 stores 3 - 5 = -2, while the code of
\* `x = x - 3` stores 2.
C28_Reached ==
    /\ gen_status = "returned"
    /\ Len(gen_log) = 1
    /\ gen_log[1].error = ""
    /\ GenFunc(1).body.statements = <<Assignment(L1, VarX, Lit3, "-=")>>
    /\ StatementCodeAt(1, 1)
           = << Instruction("LOAD_CONST", IntVal(3)),
                Instruction("LOAD_VAR", StrVal("x")),
                Instruction("SUB", NoneVal),
                Instruction("STORE_VAR", StrVal("x")) >>
    /\ Run(StatementCodeAt(1, 1), 1, <<>>, [n \in {"x"} |-> 5]).env["x"] = 0 - 2
    /\ Run(generate_statement(GenState(<<>>, 0, <<>>),
                              Desugared(GenFunc(1).body.statements[1])).instructions,
           1, <<>>, [n \in {"x"} |-> 5]).env["x"] = 2

-----------------------------------------------------------------------------
(* The names the generated code reads against the names the checker has    *)
(* bound: the checker on functions over a parameter x, a function f and a  *)
(* variable w that is assigned, read, and the target of compound           *)
(* assignments.                                                            *)

CompoundLeafs(l) ==
    { Assignment(Loc(l, 1), Id(l, 1, "w"), Literal(Loc(l, 6), IntVal(1)), "+="),
      Assignment(Loc(l, 1), Id(l, 1, "w"), Id(l, 5, "x"), "="),
      Assignment(Loc(l, 1), Id(l, 1, "x"), Id(l, 6, "w"), "-="),
      Return(Loc(l, 1), Id(l, 8, "w")),
      Call(Loc(l, 2), Id(l, 1, "f"), <<Member(Loc(l, 3), Id(l, 3, "x"), "m")>>) }

CompoundCond(l) ==
    BinaryOp(Loc(l, 6), Id(l, 4, "x"), "<", Literal(Loc(l, 8), IntVal(3)))

CompoundStmts(l) ==
    CompoundLeafs(l)
    \cup { If(Loc(l, 1), CompoundCond(l), Block(Loc(l + 1, 1), <<t>>), NoneNode) :
               t \in CompoundLeafs(l + 1) }
    \cup { While(Loc(l, 1), CompoundCond(l), Block(Loc(l + 1, 1), <<t>>)) :
               t \in CompoundLeafs(l + 1) }

CompoundPrograms ==
    { Program(<<Func("f", <<ParamX>>, <<s1>>)>>) : s1 \in CompoundStmts(10) }
    \cup { Program(<<Func("f", <<ParamX>>, <<s1, s2>>)>>) :
               s1 \in CompoundStmts(10), s2 \in CompoundStmts(20) }

InitCompound ==
    /\ LexIdle
    /\ current = 0 /\ pc = "idle" /\ function = NoneNode /\ params = <<>>
    /\ parse_status = "idle" /\ parse_error = NoError /\ iters = 0
    /\ parse_runs = <<>>
    /\ program \in CompoundPrograms
    /\ CheckIdle
    /\ GenIdle
    /\ stage = "check"

SpecCompound == InitCompound /\ [][CheckProgram]_vars

\* The names generate_expression loads for e, in the order of its LOAD_VAR
\* instructions: a call's target and a member expression load nothing.
RECURSIVE Loads(_)
RECURSIVE LoadsAll(_, _)
Loads(e) ==
    CASE e.kind = "Identifier"  -> <<e.name>>
      [] e.kind = "BinaryOp"    -> Loads(e.left) \o Loads(e.right)
      [] e.kind = "UnaryOp"     -> Loads(e.operand)
      [] e.kind = "Call"        -> LoadsAll(e.arguments, 1)
      [] e.kind = "Index"       -> Loads(e.object) \o Loads(e.index)
      [] e.kind = "ListLiteral" -> LoadsAll(e.elements, 1)
      [] OTHER -> <<>>

LoadsAll(es, i) ==
    IF i > Len(es) THEN <<>> ELSE Loads(es[i]) \o LoadsAll(es, i + 1)

\* The walk [bound, loads, unbound] after the names ns are loaded: every
\* one is a load, those without a binding are unbound loads.
Load(w, ns) ==
    [w EXCEPT !.loads = @ \o ns,
              !.unbound = @ \o SelectSeq(ns, LAMBDA n : n \notin w.bound)]

\* The walk after the code of sts[i..]: an assignment to a name binds it in
\* the current scope after its code, a compound one loading it first; a
\* nested block leaves the bound names as they were.
RECURSIVE LoadWalk(_, _, _)
LoadWalk(w, sts, i) ==
    IF i > Len(sts) THEN w
    ELSE
    LET st == sts[i]
        Nested(w0, b) ==
            IF b.kind = "None" THEN w0
            ELSE [LoadWalk(w0, b.statements, 1) EXCEPT !.bound = w0.bound]
        after ==
          CASE st.kind = "Return" ->
                  IF st.value.kind = "None" THEN w ELSE Load(w, Loads(st.value))
            [] st.kind \in {"If", "Ensure"} ->
                  Nested(Nested(Load(w, Loads(st.condition)), st.then_block),
                         st.else_block)
            [] st.kind = "While" -> Nested(Load(w, Loads(st.condition)), st.body)
            [] st.kind = "Assignment" ->
                  IF st.target.kind = "Identifier"
                  THEN [Load(w, Loads(st.value)
                                \o (IF st.operator = "=" THEN <<>>
                                    ELSE <<st.target.name>>))
                          EXCEPT !.bound = @ \cup {st.target.name}]
                  ELSE Load(w, Loads(st.value))
            [] st.kind \in {"Break", "Continue"} -> w
            [] OTHER -> Load(w, Loads(st))
    IN  LoadWalk(after, sts, i + 1)

\* The walk over the body of func, from the global names and its parameters.
FunctionLoads(func) ==
    LoadWalk([bound   |-> GlobalNames
                            \cup { func.inputs[j].name : j \in 1..Len(func.inputs) },
              loads   |-> <<>>,
              unbound |-> <<>>],
             func.body.statements, 1)

\* The operands of the LOAD_VAR instructions of code, in order.
LoadVarNames(code) ==
    LET lv == SelectSeq(code, LAMBDA ins : ins.opcode = "LOAD_VAR")
    IN  [j \in 1..Len(lv) |-> lv[j].operand.v]

\* C29: when check_program succeeds, every variable the generated code
\* reads is bound where it is read: each LOAD_VAR is of a name with a
\* binding in the current or an enclosing scope; a compound assignment to a
\* name without a binding is reported as an undefined variable.
C29_LoadsAreBound ==
    (check_status = "returned" /\ Last(check_runs).success) =>
        \A i \in 1..Declarations :
            /\ LoadVarNames(generate_function(0, <<>>, program.declarations[i])
                                .out.instructions)
                   = FunctionLoads(program.declarations[i]).loads
            /\ FunctionLoads(program.declarations[i]).unbound = <<>>

\* C29, reached: check_program returned true, without a diagnostic, for the
\* body `w += 1` where w has no binding; the code is LOAD_CONST 1,
\* LOAD_VAR w, ADD, STORE_VAR w.
C29_Reached ==
    /\ check_status = "returned"
    /\ Last(check_runs).success
    /\ errors = <<>>
    /\ Len(program.declarations) = 1
    /\ program.declarations[1].body.statements
           = << Assignment(Loc(10, 1), Id(10, 1, "w"),
                           Literal(Loc(10, 6), IntVal(1)), "+=") >>
    /\ generate_function(0, <<>>, program.declarations[1]).out.instructions[2]
           = Instruction("LOAD_VAR", StrVal("w"))
    /\ FunctionLoads(program.declarations[1]).unbound = <<"w">>

-----------------------------------------------------------------------------
(* The operand-stack effect of a statement's code (checked under SpecGen). *)

\* The change of the stack depth by one instruction.
StackEffect(ins) ==
    CASE ins.opcode \in {"LOAD_CONST", "LOAD_VAR"} -> 1
      [] ins.opcode \in {"NEG", "NOT", "JUMP"} -> 0
      [] ins.opcode \in {"STORE_VAR", "POP", "JUMP_IF_FALSE"} -> 0 - 1
      [] ins.opcode = "CALL" -> 1 - ins.operand.v[2]
      [] ins.opcode = "BUILD_LIST" -> 1 - ins.operand.v
      [] OTHER -> 0 - 1

\* The change of the stack depth by straight-line code, from code[j] on.
RECURSIVE CodeEffect(_, _)
CodeEffect(code, j) ==
    IF j > Len(code) THEN 0 ELSE StackEffect(code[j]) + CodeEffect(code, j + 1)

\* e contains a call of print or println.
RECURSIVE Prints(_)
RECURSIVE PrintsAny(_, _)
Prints(e) ==
    CASE e.kind = "Call" ->
            \/ e.function.kind = "Identifier" /\ e.function.name \in {"print", "println"}
            \/ PrintsAny(e.arguments, 1)
      [] e.kind = "BinaryOp" -> Prints(e.left) \/ Prints(e.right)
      [] e.kind = "UnaryOp" -> Prints(e.operand)
      [] e.kind = "Index" -> Prints(e.object) \/ Prints(e.index)
      [] e.kind = "ListLiteral" -> PrintsAny(e.elements, 1)
      [] e.kind = "Assignment" -> Prints(e.value)
      [] OTHER -> FALSE

PrintsAny(es, i) == i <= Len(es) /\ (Prints(es[i]) \/ PrintsAny(es, i + 1))

\* The changes of the stack depth along the paths that run through the
\* code of st and leave it at its end or by a break or continue: a return
\* ends its path inside; a loop is taken zero times and once.
RECURSIVE PathEffects(_)
RECURSIVE BlockEffects(_, _)
PathEffects(st) ==
    LET cond == CodeEffect(ExprCode(st.condition), 1) - 1
        In(b) == IF b.kind = "None" THEN {0} ELSE BlockEffects(b.statements, 1)
    IN  CASE st.kind = "Return" -> {}
          [] st.kind \in {"If", "Ensure"} ->
                { cond + t : t \in In(st.then_block) }
                \cup { cond + e : e \in In(st.else_block) }
          [] st.kind = "While" ->
                {cond} \cup { cond + b + cond : b \in In(st.body) }
          [] st.kind \in {"Break", "Continue"} -> {0}
          [] OTHER ->
                {CodeEffect(generate_statement(GenState(<<>>, 0, <<>>), st).instructions,
                            1)}

BlockEffects(sts, i) ==
    IF i > Len(sts) THEN {0}
    ELSE { a + b : a \in PathEffects(sts[i]), b \in BlockEffects(sts, i + 1) }

\* Statements the property is about: not a return, no print or println.
Balanced(st) ==
    /\ st.kind # "Return"
    /\ st.kind \in {"If", "Ensure", "While", "Break", "Continue"} \/ ~Prints(st)

\* C30: the code of a statement other than return, without print/println,
\* leaves the operand stack as deep as it found it along every path through
\* it; so does every assignment, to a name, an index or a member.
C30_StatementsBalanced ==
    \A k \in 1..Len(gen_log) :
        gen_log[k].error = "" =>
            \A i \in 1..Len(GenFunc(k).body.statements) :
                Balanced(GenFunc(k).body.statements[i]) =>
                    /\ PathEffects(GenFunc(k).body.statements[i]) \subseteq {0}
                    /\ GenFunc(k).body.statements[i].kind = "Assignment" =>
                           CodeEffect(StatementCodeAt(k, i), 1) = 0

\* C30, reached: `x[1] = 1` was generated as the single instruction
\* LOAD_CONST 1, which leaves the stack one deeper.
C30_Reached ==
    /\ gen_status = "returned"
    /\ Len(gen_log) = 1
    /\ gen_log[1].error = ""
    /\ GenFunc(1).body.statements
           = <<Assignment(L1, Index(L1, VarX, Lit1), Lit1, "=")>>
    /\ StatementCodeAt(1, 1) = <<Instruction("LOAD_CONST", IntVal(1))>>
    /\ PathEffects(GenFunc(1).body.statements[1]) = {1}
    /\ gen_log[1].code = <<Instruction("LOAD_CONST", IntVal(1))>> \o ImplicitReturnCode

====
